---- MODULE Spec2Model ----
(***************************************************************************)
(* A model of drivers/md/dm-crypt.c: the request pipeline (crypt_map, the  *)
(* read and crypt workers, crypt_convert, the asynchronous cipher callback, *)
(* the write thread and the two pending counters), the page pool of        *)
(* crypt_alloc_buffer, the alignment check of crypt_map and the key        *)
(* messages.                                                               *)
(***************************************************************************)
EXTENDS Integers, Sequences, FiniteSets, TLC

\* ---------------------------------------------------------------- bounds
MaxReq == 2
MaxSect == 2
MaxStart == 1

Reqs == 1..MaxReq
Groups == 1..MaxSect

VARIABLES
    cfg,         \* struct crypt_config: the fields the pipeline reads
    io,          \* struct dm_crypt_io (with its convert_context) of every request
    pc,          \* per request, the position of each execution context
    loc,         \* per request, the local variables of each execution context
    ops,         \* per request and sector-group, the cipher sub-request
    write_tree,  \* cc->write_tree.rb_node (0 is NULL)
    rb,          \* io->rb_node of every request: its children
    wt,          \* the dmcrypt_write thread: position, local write_tree, task state
    devlog,      \* the clones the write thread handed to generic_make_request
    h,           \* history: acknowledgements, cipher submissions, injected faults
    n_allocated_pages, \* cc->n_allocated_pages
    page_pool,   \* cc->page_pool: the elements it holds in reserve
    bio_alloc_lock,    \* cc->bio_alloc_lock: its owner (0 is unlocked)
    ab,          \* per caller of crypt_alloc_buffer: position, gfp_mask, clone
    nr_free_pages,     \* the pages alloc_page can still hand out
    mp,          \* one call of crypt_map: the bio, the io record, the result
    cc_flags,    \* cc->flags
    cc_key,      \* cc->key
    cc_key_string,     \* cc->key_string
    iv_gen,      \* the state of cc->iv_gen_ops (init / wipe)
    msg,         \* the last message and its return value
    dmreq,       \* one sector conversion: its sector, IVs and buffers
    dm_crypt_clients,  \* dm_crypt_clients_n, dm_crypt_pages_per_client, the targets
    page_alloc,  \* the threads inside crypt_page_alloc of one instance
    cc_cipher    \* the cipher and key geometry crypt_ctr_cipher works out

io_vars == <<cfg, io, pc, loc, ops, write_tree, rb, wt, devlog, h>>
alloc_vars == <<n_allocated_pages, page_pool, bio_alloc_lock, ab, nr_free_pages>>
map_vars == <<mp>>
key_vars == <<cc_flags, cc_key, cc_key_string, iv_gen, msg>>
req_vars == <<dmreq>>
client_vars == <<dm_crypt_clients, page_alloc, cc_cipher>>
not_io_vars == <<alloc_vars, map_vars, key_vars, req_vars, client_vars>>

\* ------------------------------------------------------------ the types
Status == {"OK", "IOERR", "PROTECTION", "RESOURCE"}

\* cc->sector_size >> SECTOR_SHIFT, the sector_step of crypt_convert
sector_step == cfg.sector_size \div 512

\* bio_sectors() of a bio of n sector-groups
bio_sectors(n) == n * sector_step

NoOps == [k \in Groups |-> "none"]

\* crypt_io_init: the record crypt_map starts from
crypt_io_init(dir, sector, size) ==
    [dir |-> dir, sector |-> sector, size |-> size,
     io_pending |-> 0, error |-> "OK",
     cc_pending |-> 0, cc_sector |-> 0, iter_in |-> 0, iter_out |-> 0,
     tag_offset |-> 0, restart |-> 0,
     clone |-> "none", clone_sector |-> 0,
     integrity_metadata |-> "NULL", integrity_metadata_from_pool |-> FALSE]

NoIo == crypt_io_init("NONE", 0, 0)

NoLoc == [iow |-> "OK", cw |-> "OK", ep |-> "OK", cb |-> "OK",
          ret |-> "OK", sector |-> 0]

NoHist == [acks |-> 0, status |-> "OK", submitted |-> <<>>, sector |-> 0,
           err_rec |-> FALSE, badmsg |-> FALSE, fault |-> FALSE, busy |-> FALSE,
           calls |-> 0, ret |-> "none", post |-> 0,
           kfree |-> 0, mempool_free |-> 0]

\* bio_endio(base_bio) with bi_status = st
Ack(hr, st) ==
    [hr EXCEPT !.acks = @ + 1, !.status = IF hr.acks = 0 THEN st ELSE @]

\* a store of a non-zero status to io->error, as the history sees it
Recorded(hr, st) ==
    [hr EXCEPT !.err_rec = @ \/ (st # "OK" /\ hr.acks = 0), !.fault = TRUE]

\* every answer a cipher engine may give to a submission, and the final results
\* of an asynchronous one
AllEngineResults == {"OK", "EINPROGRESS", "EBUSY", "EIO", "EBADMSG"}

\* the state after crypt_ctr, before any request: the configuration is one of
\* cfgs, all requests are still to come, the write thread is at the top of its loop
InitIO(cfgs) ==
    /\ cfg \in cfgs
    /\ io = [r \in Reqs |-> NoIo]
    /\ pc = [r \in Reqs |-> [iow |-> "new", cw |-> "idle", ep |-> "none", cb |-> "idle"]]
    /\ loc = [r \in Reqs |-> NoLoc]
    /\ ops = [r \in Reqs |-> NoOps]
    /\ write_tree = 0
    /\ rb = [r \in Reqs |-> [left |-> 0, right |-> 0]]
    /\ wt = [pc |-> "lock", tree |-> 0, running |-> TRUE, onq |-> FALSE, batch |-> 0,
             lock |-> FALSE]
    /\ devlog = <<>>
    /\ h = [r \in Reqs |-> NoHist]

\* ------------------------------------------------ crypt_map, read path
\* the results of kcryptd_io_read: the clone is submitted, bio_clone_fast fails,
\* or dm_crypt_integrity_io_alloc fails (only with on_disk_tag_size set)
kcryptd_io_read_results ==
    {"submitted"} \cup (IF cfg.faults THEN {"noclone"} ELSE {})
                  \cup (IF cfg.faults /\ cfg.tag THEN {"nointegrity"} ELSE {})

StartSectors == {s * sector_step : s \in 0..MaxStart}

\* the cleanup of crypt_dec_pending once io_pending is zero: the tag buffer
\* goes back to cc->tag_pool or to kfree (which ignores NULL), bio_endio
crypt_dec_pending_cleanup(hr, i, st) ==
    Ack([hr EXCEPT !.mempool_free = IF i.integrity_metadata_from_pool
                                    THEN @ + 1 ELSE @,
                   !.kfree = IF ~i.integrity_metadata_from_pool
                                  /\ i.integrity_metadata # "NULL"
                             THEN @ + 1 ELSE @], st)

\* whether the kmalloc of the tag buffer in crypt_map succeeds
kmalloc_results == IF cfg.tag /\ cfg.faults THEN BOOLEAN ELSE {TRUE}

\* io->integrity_metadata as crypt_map sets it with on_disk_tag_size: from
\* kmalloc, or from cc->tag_pool when kmalloc fails or tag_len is too large
io_integrity_metadata(i, kmalloc_ok) ==
    IF ~cfg.tag THEN i
    ELSE IF kmalloc_ok THEN [i EXCEPT !.integrity_metadata = "kmalloc"]
    ELSE [i EXCEPT !.integrity_metadata = "tag_pool",
                   !.integrity_metadata_from_pool = TRUE]

\* a clone that is sent to the wrong place: the start offset is left out
clone_bi_sector_unmapped(i) == i.sector

\* clone->bi_iter.bi_sector = cc->start + io->sector
clone_bi_sector(i) == cfg.start + i.sector

\* a device that takes every table line for a software cipher
crypt_mode_diskcipher_never == FALSE

\* test_bit(CRYPT_MODE_DISKCIPHER, &cc->cipher_flags)
crypt_mode_diskcipher == cfg.diskcipher

crypt_map(r) ==
    /\ pc[r].iow = "new"
    /\ r <= cfg.nreq
    /\ \A q \in Reqs : q < r => pc[q].iow # "new"
    /\ \E dir \in cfg.dirs, s \in StartSectors, n \in Groups,
          kmalloc_ok \in kmalloc_results :
        LET io0 == io_integrity_metadata(crypt_io_init(dir, s, n), kmalloc_ok)
            h0 == [h EXCEPT ![r].sector = s]
        IN
        IF dir = "WRITE" /\ ~crypt_mode_diskcipher
        THEN \* kcryptd_queue_crypt
             /\ io' = [io EXCEPT ![r] = io0]
             /\ pc' = [pc EXCEPT ![r].iow = "done", ![r].cw = "queued"]
             /\ h' = h0
        ELSE \E res \in kcryptd_io_read_results :
             \/ /\ res = "submitted"
                /\ io' = [io EXCEPT ![r] = [io0 EXCEPT !.io_pending = 1,
                                                      !.clone_sector = clone_bi_sector(io0)]]
                /\ pc' = [pc EXCEPT ![r].iow = "done", ![r].ep = "dev"]
                /\ h' = h0
             \/ /\ res = "noclone"
                /\ io' = [io EXCEPT ![r] = io0]
                /\ pc' = [pc EXCEPT ![r].iow = "rw_queued"]
                /\ h' = [h0 EXCEPT ![r].fault = TRUE]
             \/ \* crypt_inc_pending, then crypt_dec_pending reaches zero and
                \* acknowledges; kcryptd_io_read returns 1 and the io is queued
                /\ res = "nointegrity"
                /\ io' = [io EXCEPT ![r] = io0]
                /\ pc' = [pc EXCEPT ![r].iow = "rw_queued"]
                /\ h' = [h0 EXCEPT ![r] = [crypt_dec_pending_cleanup(@, io0, io0.error) EXCEPT !.fault = TRUE]]
    /\ UNCHANGED <<not_io_vars, cfg, loc, ops, write_tree, rb, wt, devlog>>

kcryptd_io_read_work(r) ==
    /\ pc[r].iow = "rw_queued"
    /\ \E res \in kcryptd_io_read_results :
        \/ /\ res = "submitted"
           /\ io' = [io EXCEPT ![r].io_pending = @ + 2,
                                ![r].clone_sector = clone_bi_sector(io[r])]
           /\ pc' = [pc EXCEPT ![r].iow = "snap", ![r].ep = "dev"]
           /\ UNCHANGED <<loc, h>>
        \/ \* kcryptd_io_read returned 1 (its own inc/dec, if any, cancel under
           \* the worker's reference): io->error = BLK_STS_RESOURCE
           /\ res # "submitted"
           /\ io' = [io EXCEPT ![r].io_pending = @ + 1, ![r].error = "RESOURCE"]
           /\ loc' = [loc EXCEPT ![r].iow = "RESOURCE"]
           /\ pc' = [pc EXCEPT ![r].iow = "dec"]
           /\ h' = [h EXCEPT ![r] = Recorded(@, "RESOURCE")]
    /\ UNCHANGED <<not_io_vars, cfg, ops, write_tree, rb, wt, devlog>>

\* ---------------------------------------------------- crypt_dec_pending
\* crypt_dec_pending, first half: "blk_status_t error = io->error" is loaded
\* before the counter is decremented
crypt_dec_pending_load(r, c) ==
    /\ pc[r][c] = "snap"
    /\ loc' = [loc EXCEPT ![r][c] = io[r].error]
    /\ pc' = [pc EXCEPT ![r][c] = "dec"]
    /\ UNCHANGED <<not_io_vars, cfg, io, ops, write_tree, rb, wt, devlog, h>>

\* where a context continues after a crypt_dec_pending call
AfterDec(c, at) ==
    CASE c = "cw" /\ at = "rd_dec" -> "snap"   \* kcryptd_crypt_read_done returned
      [] c = "cw" /\ at = "ws_dec" -> "bump"   \* kcryptd_crypt_write_io_submit returned
      [] OTHER -> "done"

\* the value atomic_dec_and_test leaves in io_pending
dec_pending_value(n) == n - 1

\* crypt_dec_pending, second half: atomic_dec_and_test(&io->io_pending) and, at
\* zero, the cleanup: bi_status = error (the value loaded before), bio_endio
crypt_dec_pending(r, c) ==
    /\ pc[r][c] \in {"dec", "rd_dec", "ws_dec"}
    /\ LET n == dec_pending_value(io[r].io_pending) IN
        /\ io' = [io EXCEPT ![r].io_pending = n]
        /\ h' = IF n = 0 THEN [h EXCEPT ![r] = crypt_dec_pending_cleanup(@, io[r], loc[r][c])] ELSE h
    /\ pc' = [pc EXCEPT ![r][c] = AfterDec(c, pc[r][c])]
    /\ loc' = [loc EXCEPT ![r][c] = "OK"]
    /\ UNCHANGED <<not_io_vars, cfg, ops, write_tree, rb, wt, devlog>>

\* ----------------------------------------------------------- crypt_endio
\* crypt_free_buffer_pages(cc, clone): BUG_ON(!bv->bv_page) on a second call
crypt_free_buffer_pages(st) ==
    IF st = "alloc" THEN "freed" ELSE "BUG"

\* the device completes the clone with bi_status = st
crypt_endio(r) ==
    /\ pc[r].ep = "dev"
    /\ \E st \in {"OK"} \cup (IF cfg.faults THEN {"IOERR"} ELSE {}) :
        LET cl == IF io[r].dir = "WRITE" /\ ~crypt_mode_diskcipher
                  THEN crypt_free_buffer_pages(io[r].clone)
                  ELSE io[r].clone IN
        IF io[r].dir = "READ" /\ st = "OK" /\ ~crypt_mode_diskcipher
        THEN \* kcryptd_queue_crypt
             /\ pc' = [pc EXCEPT ![r].ep = "done", ![r].cw = "queued"]
             /\ UNCHANGED <<io, loc, h>>
        ELSE LET e == IF st # "OK" THEN st ELSE io[r].error IN
             /\ io' = [io EXCEPT ![r].clone = cl, ![r].error = e]
             /\ loc' = [loc EXCEPT ![r].ep = e]
             /\ pc' = [pc EXCEPT ![r].ep = "dec"]
             /\ h' = IF st # "OK" THEN [h EXCEPT ![r] = Recorded(@, st)] ELSE h
    /\ UNCHANGED <<not_io_vars, cfg, ops, write_tree, rb, wt, devlog>>

\* --------------------------------------------------------- the write tree
RECURSIVE rb_descend(_, _, _, _)
\* the while (*rbp) loop of kcryptd_crypt_write_io_submit from node n
rb_descend(rbf, iof, n, sector) ==
    IF sector < iof[n].sector
    THEN IF rbf[n].left = 0 THEN [parent |-> n, side |-> "left"]
         ELSE rb_descend(rbf, iof, rbf[n].left, sector)
    ELSE IF rbf[n].right = 0 THEN [parent |-> n, side |-> "right"]
         ELSE rb_descend(rbf, iof, rbf[n].right, sector)

\* rb_link_node of request r below the place the descent found; the rotations
\* of rb_insert_color keep the in-order sequence, which is what rb_first reads
rb_link_node(rbf, iof, root, r) ==
    LET fresh == [rbf EXCEPT ![r] = [left |-> 0, right |-> 0]] IN
    IF root = 0 THEN [root |-> r, rb |-> fresh]
    ELSE LET d == rb_descend(rbf, iof, root, iof[r].sector) IN
         [root |-> root,
          rb |-> IF d.side = "left" THEN [fresh EXCEPT ![d.parent].left = r]
                 ELSE [fresh EXCEPT ![d.parent].right = r]]

RECURSIVE rb_first(_, _)
\* rb_first: the leftmost node
rb_first(rbf, n) == IF rbf[n].left = 0 THEN n ELSE rb_first(rbf, rbf[n].left)

\* rb_erase of the leftmost node m: its right child takes its place
rb_erase(rbf, root, m) ==
    IF m = root THEN [root |-> rbf[m].right, rb |-> rbf]
    ELSE LET p == CHOOSE q \in DOMAIN rbf : rbf[q].left = m /\ q # m IN
         [root |-> root, rb |-> [rbf EXCEPT ![p].left = rbf[m].right]]

\* a wake-up that does not reach the sleeping write thread
wake_up_locked_lost(w) == w

\* wake_up_locked(&cc->write_thread_wait)
wake_up_locked(w) == IF w.onq THEN [w EXCEPT !.running = TRUE] ELSE w

\* spin_lock_irq / spin_lock_irqsave(&cc->write_thread_wait.lock) can be taken
spin_lock(w) == ~w.lock

\* a driver that hands every finished conversion to the write thread
submit_from_crypt_cpus_never(async) == FALSE

\* likely(!async) && test_bit(DM_CRYPT_NO_OFFLOAD, &cc->flags)
submit_from_crypt_cpus(async) == ~async /\ cfg.no_offload

\* a submit stage that does not look at io->error
io_error_ignored(i) == FALSE

\* unlikely(io->error) at the top of kcryptd_crypt_write_io_submit
io_error(i) == i.error # "OK"

\* kcryptd_crypt_write_io_submit(io, async) called by context c of request r,
\* on the io record iob; the caller continues at pc_err / pc_ok
kcryptd_crypt_write_io_submit(iob, r, async, c, pc_err, pc_ok) ==
    IF io_error(iob[r])
    THEN \* free the pages, bio_put, crypt_dec_pending (its load of io->error)
         /\ io' = [iob EXCEPT ![r].clone = crypt_free_buffer_pages(@)]
         /\ loc' = [loc EXCEPT ![r][c] = iob[r].error]
         /\ pc' = [pc EXCEPT ![r][c] = pc_err]
         /\ UNCHANGED <<write_tree, rb, wt>>
    ELSE LET sect == clone_bi_sector(iob[r]) IN
         \* BUG_ON(io->ctx.iter_out.bi_size)
         /\ io' = [iob EXCEPT ![r].clone_sector = sect,
                              ![r].clone = IF iob[r].iter_out # 0 THEN "BUG" ELSE @]
         /\ loc' = loc
         /\ IF submit_from_crypt_cpus(async)
            THEN \* generic_make_request(clone)
                 /\ pc' = [pc EXCEPT ![r][c] = pc_ok, ![r].ep = "dev"]
                 /\ UNCHANGED <<write_tree, rb, wt>>
            ELSE \* under write_thread_wait.lock, taken and released here
                 LET t == rb_link_node(rb, iob, write_tree, r) IN
                 /\ spin_lock(wt)
                 /\ pc' = [pc EXCEPT ![r][c] = pc_ok]
                 /\ write_tree' = t.root
                 /\ rb' = t.rb
                 /\ wt' = wake_up_locked(wt)

\* -------------------------------------------- kcryptd_crypt, crypt_convert
\* a conversion whose pending counter starts at zero
crypt_convert_init_unseeded(i, size_out) ==
    [i EXCEPT !.cc_sector = i.sector + cfg.iv_offset,
              !.iter_in = i.size, !.iter_out = size_out,
              !.tag_offset = 0, !.restart = 0, !.cc_pending = 0]

\* crypt_convert_init followed by the atomic_set(&ctx->cc_pending, 1) of crypt_convert
crypt_convert_init(i, size_out) ==
    [i EXCEPT !.cc_sector = i.sector + cfg.iv_offset,
              !.iter_in = i.size, !.iter_out = size_out,
              !.tag_offset = 0, !.restart = 0, !.cc_pending = 1]

\* the results of crypt_alloc_buffer: a clone with its pages, or NULL when
\* dm_crypt_integrity_io_alloc fails
crypt_alloc_buffer_results ==
    {"clone"} \cup (IF cfg.faults /\ cfg.tag THEN {"null"} ELSE {})

\* kcryptd_crypt of a queued io: the head of kcryptd_crypt_read_convert or of
\* kcryptd_crypt_write_convert, up to the first iteration of crypt_convert
kcryptd_crypt(r) ==
    /\ pc[r].cw = "queued"
    /\ \/ /\ io[r].dir = "READ"
          /\ io' = [io EXCEPT ![r] = crypt_convert_init(
                         [@ EXCEPT !.io_pending = @ + 1], io[r].size)]
          /\ pc' = [pc EXCEPT ![r].cw = "conv"]
          /\ UNCHANGED <<loc, h>>
       \/ /\ io[r].dir = "WRITE"
          /\ \E res \in crypt_alloc_buffer_results :
              IF res = "null"
              THEN /\ io' = [io EXCEPT ![r] = [crypt_convert_init(@, 0) EXCEPT
                                 !.io_pending = @ + 1, !.error = "IOERR", !.cc_pending = 0]]
                   /\ loc' = [loc EXCEPT ![r].cw = "IOERR"]
                   /\ pc' = [pc EXCEPT ![r].cw = "dec"]
                   /\ h' = [h EXCEPT ![r] = Recorded(@, "IOERR")]
              ELSE /\ io' = [io EXCEPT ![r] = [crypt_convert_init(@, io[r].size) EXCEPT
                                 !.io_pending = @ + 2, !.clone = "alloc"]]
                   /\ loc' = [loc EXCEPT ![r].sector = io[r].sector + bio_sectors(io[r].size)]
                   /\ pc' = [pc EXCEPT ![r].cw = "conv"]
                   /\ h' = h
    /\ ops' = [ops EXCEPT ![r] = NoOps]
    /\ UNCHANGED <<not_io_vars, cfg, write_tree, rb, wt, devlog>>

\* what the cipher engine may answer to a submission
EngineResults(dir) ==
    cfg.engine \ (IF dir = "READ" THEN {} ELSE {"EBADMSG"})

\* the returns of crypt_convert_block_skcipher / crypt_convert_block_aead that
\* come before the cipher is called: -EIO for a segment that is no multiple of
\* the sector size, and the error of cc->iv_gen_ops->generator
EarlyReturns == {"unaligned", "ivgen"}

\* what a call of the block conversion may return
crypt_convert_block_results(dir) ==
    EngineResults(dir) \cup (IF cfg.faults THEN EarlyReturns ELSE {})

\* a block conversion that leaves the data cursors where they were
advance_iters_stuck(i) == i

\* bio_advance_iter of both cursors by one sector, at the end of
\* crypt_convert_block_skcipher / crypt_convert_block_aead
advance_iters(i) == [i EXCEPT !.iter_in = @ - 1, !.iter_out = @ - 1]

\* a switch that leaves the sector cursor where it was
advance_sector_stuck(i) == i

\* the cases -EBUSY (after the wait), -EINPROGRESS and 0 of crypt_convert's switch:
\* the sector cursor and the tag offset move on
advance_sector(i) ==
    [i EXCEPT !.cc_sector = @ + sector_step, !.tag_offset = @ + 1]

\* a loop that stops after the first sector-group
more_to_convert_once(i) == i.iter_in = i.size /\ i.iter_out > 0

\* the loop condition of crypt_convert
more_to_convert(i) == i.iter_in > 0 /\ i.iter_out > 0

\* the position of the worker after the switch said "continue"
AfterContinue(i) == IF more_to_convert(i) THEN "conv" ELSE "ccdec"

\* one iteration of the loop of crypt_convert: crypt_alloc_req, atomic_inc,
\* the block conversion (the submission to the engine) and the switch on its result
crypt_convert(r) ==
    /\ pc[r].cw = "conv"
    /\ more_to_convert(io[r])
    /\ LET k == io[r].size - io[r].iter_in + 1
           sub == [sector |-> io[r].cc_sector, pos |-> io[r].size - io[r].iter_in,
                   tag |-> io[r].tag_offset]
           i1 == advance_iters(io[r])
       IN \E res \in crypt_convert_block_results(io[r].dir) :
           /\ \/ /\ res = "EBUSY"
                 /\ io' = [io EXCEPT ![r] = [i1 EXCEPT !.cc_pending = @ + 1]]
                 /\ ops' = [ops EXCEPT ![r][k] = "backlog"]
                 /\ pc' = [pc EXCEPT ![r].cw = "wait"]
                 /\ loc' = loc
              \/ /\ res = "EINPROGRESS"
                 /\ io' = [io EXCEPT ![r] = [advance_sector(i1) EXCEPT !.cc_pending = @ + 1]]
                 /\ ops' = [ops EXCEPT ![r][k] = "inflight"]
                 /\ pc' = [pc EXCEPT ![r].cw = AfterContinue(i1)]
                 /\ loc' = loc
              \/ /\ res = "OK"
                 /\ io' = [io EXCEPT ![r] = advance_sector(i1)]
                 /\ ops' = [ops EXCEPT ![r][k] = "done"]
                 /\ pc' = [pc EXCEPT ![r].cw = AfterContinue(i1)]
                 /\ loc' = loc
              \/ /\ res \in {"EBADMSG", "EIO"}
                 /\ io' = [io EXCEPT ![r] = i1]
                 /\ ops' = [ops EXCEPT ![r][k] = "done"]
                 /\ pc' = [pc EXCEPT ![r].cw = "store"]
                 /\ loc' = [loc EXCEPT ![r].ret =
                               IF res = "EBADMSG" THEN "PROTECTION" ELSE "IOERR"]
              \/ \* the early returns: the cursors stay, nothing was submitted
                 /\ res \in EarlyReturns
                 /\ io' = io
                 /\ ops' = ops
                 /\ pc' = [pc EXCEPT ![r].cw = "store"]
                 /\ loc' = [loc EXCEPT ![r].ret = "IOERR"]
           /\ h' = [h EXCEPT ![r].submitted =
                                 IF res \in EarlyReturns THEN @ ELSE Append(@, sub),
                             ![r].badmsg = @ \/ (res = "EBADMSG" /\ h[r].acks = 0),
                             ![r].fault = @ \/ res \in {"EBADMSG", "EIO"} \cup EarlyReturns,
                             ![r].busy = @ \/ res = "EBUSY",
                             ![r].calls = @ + 1,
                             ![r].ret = res]
    /\ UNCHANGED <<not_io_vars, cfg, write_tree, rb, wt, devlog>>

\* case -EBUSY of crypt_convert: wait_for_completion(&ctx->restart),
\* reinit_completion, then the fall through to case -EINPROGRESS
crypt_convert_restart(r) ==
    /\ pc[r].cw = "wait"
    /\ io[r].restart > 0
    /\ io' = [io EXCEPT ![r] = [advance_sector(@) EXCEPT !.restart = 0]]
    /\ pc' = [pc EXCEPT ![r].cw = AfterContinue(io[r])]
    /\ UNCHANGED <<not_io_vars, cfg, loc, ops, write_tree, rb, wt, devlog, h>>

\* "if (r) io->error = r" after crypt_convert returned an error
crypt_convert_error(r) ==
    /\ pc[r].cw = "store"
    /\ io' = [io EXCEPT ![r].error = loc[r].ret]
    /\ h' = [h EXCEPT ![r] = Recorded(@, loc[r].ret)]
    /\ loc' = [loc EXCEPT ![r].ret = "OK"]
    /\ pc' = [pc EXCEPT ![r].cw = "ccdec"]
    /\ UNCHANGED <<not_io_vars, cfg, ops, write_tree, rb, wt, devlog>>

\* atomic_dec_and_test(&io->ctx.cc_pending) by the worker, and what it calls at
\* zero: kcryptd_crypt_read_done or kcryptd_crypt_write_io_submit(io, 0)
kcryptd_crypt_finish(r) ==
    /\ pc[r].cw = "ccdec"
    /\ LET iob == [io EXCEPT ![r].cc_pending = @ - 1] IN
        IF iob[r].cc_pending # 0
        THEN /\ io' = iob
             /\ pc' = [pc EXCEPT ![r].cw = "snap"]
             /\ UNCHANGED <<loc, write_tree, rb, wt>>
        ELSE IF io[r].dir = "READ"
        THEN /\ io' = iob
             /\ loc' = [loc EXCEPT ![r].cw = iob[r].error]
             /\ pc' = [pc EXCEPT ![r].cw = "rd_dec"]
             /\ UNCHANGED <<write_tree, rb, wt>>
        ELSE kcryptd_crypt_write_io_submit(iob, r, FALSE, "cw", "ws_dec", "bump")
    /\ h' = IF io[r].cc_pending = 1 THEN [h EXCEPT ![r].post = @ + 1] ELSE h
    /\ UNCHANGED <<not_io_vars, cfg, ops, devlog>>

\* "io->sector = sector" of kcryptd_crypt_write_convert, after the submit
kcryptd_crypt_write_advance(r) ==
    /\ pc[r].cw = "bump"
    /\ io' = [io EXCEPT ![r].sector = loc[r].sector]
    /\ loc' = [loc EXCEPT ![r].sector = 0]
    /\ pc' = [pc EXCEPT ![r].cw = "snap"]
    /\ UNCHANGED <<not_io_vars, cfg, ops, write_tree, rb, wt, devlog, h>>

\* ------------------------------------------------------ kcryptd_async_done
\* the status kcryptd_async_done stores in io->error for a cipher result
async_status(res) == IF res = "EBADMSG" THEN "PROTECTION" ELSE "IOERR"

\* a callback that treats the -EINPROGRESS notification as a completion
kcryptd_async_done_restart_dec(r, k) ==
    /\ ops[r][k] = "backlog"
    /\ ops' = [ops EXCEPT ![r][k] = "inflight"]
    /\ io' = [io EXCEPT ![r].restart = @ + 1, ![r].cc_pending = @ - 1]
    /\ UNCHANGED <<not_io_vars, cfg, pc, loc, write_tree, rb, wt, devlog, h>>

\* kcryptd_async_done(error == -EINPROGRESS): the backlogged request is being
\* processed; complete(&ctx->restart) and nothing else
kcryptd_async_done_restart(r, k) ==
    /\ ops[r][k] = "backlog"
    /\ ops' = [ops EXCEPT ![r][k] = "inflight"]
    /\ io' = [io EXCEPT ![r].restart = @ + 1]
    /\ UNCHANGED <<not_io_vars, cfg, pc, loc, write_tree, rb, wt, devlog, h>>

\* the tail of kcryptd_async_done: crypt_free_req, atomic_dec_and_test of
\* cc_pending and, at zero, kcryptd_crypt_read_done or
\* kcryptd_crypt_write_io_submit(io, 1)
kcryptd_async_done_dec(iob0, r, k) ==
    LET iob == [iob0 EXCEPT ![r].cc_pending = @ - 1] IN
    /\ ops' = [ops EXCEPT ![r][k] = "done"]
    /\ h' = IF iob[r].cc_pending = 0 THEN [h EXCEPT ![r].post = @ + 1] ELSE h
    /\ IF iob[r].cc_pending # 0
       THEN /\ io' = iob
            /\ UNCHANGED <<pc, loc, write_tree, rb, wt>>
       ELSE IF iob[r].dir = "READ"
       THEN /\ io' = iob
            /\ loc' = [loc EXCEPT ![r].cb = iob[r].error]
            /\ pc' = [pc EXCEPT ![r].cb = "dec"]
            /\ UNCHANGED <<write_tree, rb, wt>>
       ELSE kcryptd_crypt_write_io_submit(iob, r, TRUE, "cb", "dec", "done")

\* kcryptd_async_done with the final result of sub-request k
kcryptd_async_done(r, k) ==
    /\ ops[r][k] = "inflight"
    /\ \E res \in EngineResults(io[r].dir) \ {"EINPROGRESS", "EBUSY"} :
        \/ /\ res = "OK"
           /\ kcryptd_async_done_dec(io, r, k)
        \/ \* io->error is stored; the decrement is a later step
           /\ res # "OK"
           /\ io' = [io EXCEPT ![r].error = async_status(res)]
           /\ ops' = [ops EXCEPT ![r][k] = "stored"]
           /\ h' = [h EXCEPT ![r] = [Recorded(@, async_status(res)) EXCEPT
                                        !.badmsg = @ \/ (res = "EBADMSG" /\ h[r].acks = 0)]]
           /\ UNCHANGED <<pc, loc, write_tree, rb, wt>>
    /\ UNCHANGED <<not_io_vars, cfg, devlog>>

kcryptd_async_done_finish(r, k) ==
    /\ ops[r][k] = "stored"
    /\ kcryptd_async_done_dec(io, r, k)
    /\ UNCHANGED <<not_io_vars, cfg, devlog>>

\* ------------------------------------------------------------ dmcrypt_write
\* spin_lock_irq(&cc->write_thread_wait.lock) at the top of the loop, and after
\* schedule(), where __remove_wait_queue follows
dmcrypt_write_lock ==
    /\ wt.pc \in {"lock", "relock"}
    /\ spin_lock(wt)
    /\ wt' = [wt EXCEPT !.pc = "check", !.lock = TRUE,
                        !.onq = IF wt.pc = "relock" THEN FALSE ELSE @]
    /\ UNCHANGED <<not_io_vars, cfg, io, pc, loc, ops, write_tree, rb, devlog, h>>

\* a swap that leaves cc->write_tree as it was
pop_from_list_shared(tree) == [mine |-> tree, shared |-> tree]

\* pop_from_list: write_tree = cc->write_tree; cc->write_tree = RB_ROOT
pop_from_list(tree) == [mine |-> tree, shared |-> 0]

\* the locked section of dmcrypt_write from continue_locked to the unlock: a
\* non-empty tree is swapped out, an empty one puts the thread on the wait queue
dmcrypt_write_check ==
    /\ wt.pc = "check"
    /\ IF write_tree # 0
       THEN /\ wt' = [wt EXCEPT !.pc = "pop", !.tree = pop_from_list(write_tree).mine,
                                !.running = TRUE, !.batch = @ + 1, !.lock = FALSE]
            /\ write_tree' = pop_from_list(write_tree).shared
       ELSE /\ wt' = [wt EXCEPT !.pc = "sched", !.onq = TRUE, !.running = FALSE,
                                !.lock = FALSE]
            /\ UNCHANGED write_tree
    /\ UNCHANGED <<not_io_vars, cfg, io, pc, loc, ops, rb, devlog, h>>

\* schedule() returns once the task is runnable again
dmcrypt_write_schedule ==
    /\ wt.pc = "sched"
    /\ wt.running
    /\ wt' = [wt EXCEPT !.pc = "relock"]
    /\ UNCHANGED <<not_io_vars, cfg, io, pc, loc, ops, write_tree, rb, devlog, h>>

\* one turn of the do-while loop: rb_first, rb_erase, kcryptd_io_write
dmcrypt_write_pop ==
    /\ wt.pc = "pop"
    /\ LET m == rb_first(rb, wt.tree)
           t == rb_erase(rb, wt.tree, m)
       IN /\ rb' = t.rb
          /\ wt' = [wt EXCEPT !.tree = t.root,
                              !.pc = IF t.root = 0 THEN "lock" ELSE "pop"]
          /\ pc' = [pc EXCEPT ![m].ep = "dev"]
          /\ devlog' = Append(devlog, [req |-> m, batch |-> wt.batch,
                                       sector |-> io[m].clone_sector])
    /\ UNCHANGED <<not_io_vars, cfg, io, loc, ops, write_tree, h>>

\* ------------------------------------------------------- the specification
\* the parts of the driver a specification does not exercise stay as they are
IdleAlloc ==
    /\ n_allocated_pages = 0 /\ page_pool = 0 /\ bio_alloc_lock = 0
    /\ ab = <<>> /\ nr_free_pages = 0

IdleMap == mp = <<>>

IdleReq == dmreq = <<>>

IdleClients == dm_crypt_clients = <<>> /\ page_alloc = <<>> /\ cc_cipher = <<>>

IdleKey ==
    /\ cc_flags = {} /\ cc_key = <<>> /\ cc_key_string = "" /\ iv_gen = ""
    /\ msg = <<>>

NextIO ==
    \/ \E r \in Reqs : crypt_map(r)
    \/ \E r \in Reqs : kcryptd_io_read_work(r)
    \/ \E r \in Reqs, c \in {"iow", "cw"} : crypt_dec_pending_load(r, c)
    \/ \E r \in Reqs, c \in {"iow", "cw", "ep", "cb"} : crypt_dec_pending(r, c)
    \/ \E r \in Reqs : crypt_endio(r)
    \/ \E r \in Reqs : kcryptd_crypt(r)
    \/ \E r \in Reqs : crypt_convert(r)
    \/ \E r \in Reqs : crypt_convert_restart(r)
    \/ \E r \in Reqs : crypt_convert_error(r)
    \/ \E r \in Reqs : kcryptd_crypt_finish(r)
    \/ \E r \in Reqs : kcryptd_crypt_write_advance(r)
    \/ \E r \in Reqs, k \in Groups : kcryptd_async_done_restart(r, k)
    \/ \E r \in Reqs, k \in Groups : kcryptd_async_done(r, k)
    \/ \E r \in Reqs, k \in Groups : kcryptd_async_done_finish(r, k)
    \/ dmcrypt_write_lock
    \/ dmcrypt_write_check
    \/ dmcrypt_write_schedule
    \/ dmcrypt_write_pop

\* the configurations of the pipeline specification: one request followed
\* through every interleaving of its contexts, any engine, any fault
PipelineCfgs ==
    [no_offload : BOOLEAN, tag : BOOLEAN, sector_size : {1024}, iv_offset : {2},
     start : {8}, nreq : {1}, dirs : {{"READ", "WRITE"}},
     engine : {AllEngineResults}, faults : {TRUE}, diskcipher : {FALSE}]
    \cup \* the IV mode "disk" or "fmp": the cipher is in the storage controller
    [no_offload : BOOLEAN, tag : {FALSE}, sector_size : {1024}, iv_offset : {2},
     start : {8}, nreq : {1}, dirs : {{"READ", "WRITE"}},
     engine : {AllEngineResults}, faults : {TRUE}, diskcipher : {TRUE}]

Init ==
    InitIO(PipelineCfgs) /\ IdleAlloc /\ IdleMap /\ IdleKey /\ IdleReq /\ IdleClients

vars == <<io_vars, alloc_vars, map_vars, key_vars, req_vars, client_vars>>

Spec == Init /\ [][NextIO]_vars

\* the workers, the cipher engine, the device and the write thread all get to
\* run; only the arrival of requests is left to the environment
NextProgress ==
    \/ \E r \in Reqs : kcryptd_io_read_work(r)
    \/ \E r \in Reqs, c \in {"iow", "cw"} : crypt_dec_pending_load(r, c)
    \/ \E r \in Reqs, c \in {"iow", "cw", "ep", "cb"} : crypt_dec_pending(r, c)
    \/ \E r \in Reqs : crypt_endio(r)
    \/ \E r \in Reqs : kcryptd_crypt(r)
    \/ \E r \in Reqs : crypt_convert(r)
    \/ \E r \in Reqs : crypt_convert_restart(r)
    \/ \E r \in Reqs : crypt_convert_error(r)
    \/ \E r \in Reqs : kcryptd_crypt_finish(r)
    \/ \E r \in Reqs : kcryptd_crypt_write_advance(r)
    \/ \E r \in Reqs, k \in Groups : kcryptd_async_done_restart(r, k)
    \/ \E r \in Reqs, k \in Groups : kcryptd_async_done(r, k)
    \/ \E r \in Reqs, k \in Groups : kcryptd_async_done_finish(r, k)
    \/ dmcrypt_write_lock
    \/ dmcrypt_write_check
    \/ dmcrypt_write_schedule
    \/ dmcrypt_write_pop

FairSpec == Init /\ [][NextIO]_vars /\ WF_vars(NextProgress)

\* the write stage: MaxReq concurrent writes, an engine that completes
\* synchronously or asynchronously, no faults
WriteStageCfgs ==
    [no_offload : BOOLEAN, tag : {FALSE}, sector_size : {1024}, iv_offset : {2},
     start : {8}, nreq : {MaxReq}, dirs : {{"WRITE"}},
     engine : {{"OK", "EINPROGRESS"}}, faults : {FALSE}, diskcipher : {FALSE}]

InitWrite ==
    InitIO(WriteStageCfgs) /\ IdleAlloc /\ IdleMap /\ IdleKey /\ IdleReq /\ IdleClients

NextWrite ==
    \/ \E r \in Reqs : crypt_map(r)
    \/ \E r \in Reqs : crypt_dec_pending_load(r, "cw")
    \/ \E r \in Reqs, c \in {"cw", "ep"} : crypt_dec_pending(r, c)
    \/ \E r \in Reqs : crypt_endio(r)
    \/ \E r \in Reqs : kcryptd_crypt(r)
    \/ \E r \in Reqs : crypt_convert(r)
    \/ \E r \in Reqs : kcryptd_crypt_finish(r)
    \/ \E r \in Reqs : kcryptd_crypt_write_advance(r)
    \/ \E r \in Reqs, k \in Groups : kcryptd_async_done(r, k)
    \/ dmcrypt_write_lock
    \/ dmcrypt_write_check
    \/ dmcrypt_write_schedule
    \/ dmcrypt_write_pop

SpecWrite == InitWrite /\ [][NextWrite]_vars

\* the write thread is a kernel thread of its own: it runs when it is runnable
dmcrypt_write ==
    \/ dmcrypt_write_lock
    \/ dmcrypt_write_check
    \/ dmcrypt_write_schedule
    \/ dmcrypt_write_pop

\* the write stage of a device without DM_CRYPT_NO_OFFLOAD: every finished
\* conversion goes through cc->write_tree
InitOffload == InitWrite /\ ~cfg.no_offload

FairSpecWrite == InitOffload /\ [][NextWrite]_vars /\ WF_vars(dmcrypt_write)

\* ------------------------------------------------------------ the page pool
MaxCallers == 2
MaxPages == 2
MaxFree == 2

Callers == 1..MaxCallers

\* dm_crypt_pages_per_client as crypt_calculate_pages_per_client leaves it: never
\* below DM_CRYPT_MIN_PAGES_PER_CLIENT, which is above the reserve of the pool
dm_crypt_pages_per_client == MaxPages + 1

\* the counters the pool works on, as one record
PoolState == [n |-> n_allocated_pages, curr |-> page_pool, free |-> nr_free_pages]

\* mempool_create(BIO_MAX_PAGES, crypt_page_alloc, crypt_page_free, cc): the
\* reserve is filled through crypt_page_alloc with GFP_KERNEL, which counts
\* every page and skips the quota test
mempool_create(min_nr, free) == [n |-> min_nr, curr |-> min_nr, free |-> free]

\* crypt_page_alloc: NULL at the quota (when __GFP_NORETRY is set) or when
\* alloc_page has nothing to give; a page is counted
crypt_page_alloc(st, noretry) ==
    {[page |-> FALSE, st |-> st]} \cup
    (IF (st.n >= dm_crypt_pages_per_client /\ noretry) \/ st.free = 0 THEN {}
     ELSE {[page |-> TRUE, st |-> [st EXCEPT !.n = @ + 1, !.free = @ - 1]]})

\* a free that forgets the counter
crypt_page_free_uncounted(st) == [st EXCEPT !.free = @ + 1]

\* crypt_page_free: __free_page and the counter goes down
crypt_page_free(st) == [st EXCEPT !.n = @ - 1, !.free = @ + 1]

\* mempool_alloc(cc->page_pool, gfp_mask): the allocator first (always with
\* __GFP_NORETRY), then the reserve, then NULL without __GFP_DIRECT_RECLAIM and a
\* wait for a returned element with it
mempool_alloc(st, reclaim) ==
    LET got == {o \in crypt_page_alloc(st, TRUE) : o.page} IN
    {[res |-> "page", st |-> o.st] : o \in got} \cup
    (IF st.curr > 0 THEN {[res |-> "page", st |-> [st EXCEPT !.curr = @ - 1]]}
     ELSE IF reclaim THEN {[res |-> "wait", st |-> st]}
     ELSE {[res |-> "null", st |-> st]})

\* mempool_free(page, cc->page_pool): the reserve is refilled first, a page
\* beyond the reserve goes back through crypt_page_free
mempool_free(st) ==
    IF st.curr < MaxPages THEN [st EXCEPT !.curr = @ + 1] ELSE crypt_page_free(st)

\* the loop of crypt_free_buffer_pages over the k pages of a clone
RECURSIVE bio_for_each_segment_all(_, _)
bio_for_each_segment_all(st, k) ==
    IF k = 0 THEN st ELSE bio_for_each_segment_all(mempool_free(st), k - 1)

SetPool(st) ==
    /\ n_allocated_pages' = st.n
    /\ page_pool' = st.curr
    /\ nr_free_pages' = st.free

NoClone == [pc |-> "idle", reclaim |-> FALSE, nr |-> 0, pages |-> 0,
            clone |-> "none", fell |-> FALSE]

\* a mutex that lets everybody in
mutex_lock_open(lock) == TRUE

\* mutex_lock(&cc->bio_alloc_lock) can be taken
mutex_lock(lock) == lock = 0

\* kcryptd_crypt_write_convert calls crypt_alloc_buffer(io, size):
\* nr_iovecs pages are needed, gfp_mask starts as GFP_NOWAIT
crypt_alloc_buffer(c) ==
    /\ ab[c].pc = "idle"
    /\ \E nr \in 1..MaxPages :
        ab' = [ab EXCEPT ![c] = [NoClone EXCEPT !.pc = "retry", !.nr = nr]]
    /\ UNCHANGED <<n_allocated_pages, page_pool, nr_free_pages, bio_alloc_lock>>
    /\ UNCHANGED <<io_vars, map_vars, key_vars, req_vars, client_vars>>

\* retry: the mutex with __GFP_DIRECT_RECLAIM, bio_alloc_bioset, clone_init;
\* without a clone the function leaves through out: and gives the mutex back
crypt_alloc_buffer_retry(c) ==
    /\ ab[c].pc = "retry"
    /\ ab[c].reclaim => mutex_lock(bio_alloc_lock)
    /\ \E clone_ok \in (IF cfg.faults THEN BOOLEAN ELSE {TRUE}) :
        IF clone_ok
        THEN /\ bio_alloc_lock' = IF ab[c].reclaim THEN c ELSE bio_alloc_lock
             /\ ab' = [ab EXCEPT ![c].pc = "page", ![c].clone = "alloc", ![c].pages = 0]
        ELSE /\ bio_alloc_lock' = bio_alloc_lock
             /\ ab' = [ab EXCEPT ![c].pc = "done", ![c].clone = "null", ![c].pages = 0]
    /\ UNCHANGED <<n_allocated_pages, page_pool, nr_free_pages>>
    /\ UNCHANGED <<io_vars, map_vars, key_vars, req_vars, client_vars>>

\* one turn of the loop over nr_iovecs: mempool_alloc and bio_add_page, or,
\* without a page, crypt_free_buffer_pages, bio_put and the retry with
\* __GFP_DIRECT_RECLAIM
crypt_alloc_buffer_page(c) ==
    /\ ab[c].pc = "page"
    /\ \E o \in mempool_alloc(PoolState, ab[c].reclaim) :
        \/ /\ o.res = "page"
           /\ SetPool(o.st)
           /\ ab' = [ab EXCEPT ![c].pages = @ + 1,
                               ![c].pc = IF ab[c].pages + 1 = ab[c].nr
                                         THEN "tags" ELSE "page"]
        \/ /\ o.res = "null"
           /\ SetPool(bio_for_each_segment_all(o.st, ab[c].pages))
           /\ ab' = [ab EXCEPT ![c].pages = 0,
                               ![c].clone = crypt_free_buffer_pages(@),
                               ![c].reclaim = TRUE, ![c].fell = TRUE,
                               ![c].pc = "retry"]
    /\ UNCHANGED bio_alloc_lock
    /\ UNCHANGED <<io_vars, map_vars, key_vars, req_vars, client_vars>>

\* the end of crypt_alloc_buffer: dm_crypt_integrity_io_alloc, whose failure
\* frees the pages and returns NULL, and mutex_unlock
crypt_alloc_buffer_out(c) ==
    /\ ab[c].pc = "tags"
    /\ \E ok \in (IF cfg.tag THEN BOOLEAN ELSE {TRUE}) :
        IF ok
        THEN /\ ab' = [ab EXCEPT ![c].pc = "conv"]
             /\ UNCHANGED <<n_allocated_pages, page_pool, nr_free_pages>>
        ELSE /\ SetPool(bio_for_each_segment_all(PoolState, ab[c].pages))
             /\ ab' = [ab EXCEPT ![c].pages = 0,
                                 ![c].clone = crypt_free_buffer_pages(@),
                                 ![c].pc = "done"]
    /\ bio_alloc_lock' = IF ab[c].reclaim THEN 0 ELSE bio_alloc_lock
    /\ UNCHANGED <<io_vars, map_vars, key_vars, req_vars, client_vars>>

\* the clone after the conversion, in kcryptd_crypt_write_io_submit: with
\* io->error the pages are freed, else the clone goes to the device
kcryptd_crypt_write_io_submit_clone(c) ==
    /\ ab[c].pc = "conv"
    /\ \E err \in BOOLEAN :
        IF err
        THEN /\ SetPool(bio_for_each_segment_all(PoolState, ab[c].pages))
             /\ ab' = [ab EXCEPT ![c].pages = 0,
                                 ![c].clone = crypt_free_buffer_pages(@),
                                 ![c].pc = "done"]
        ELSE /\ ab' = [ab EXCEPT ![c].pc = "dev"]
             /\ UNCHANGED <<n_allocated_pages, page_pool, nr_free_pages>>
    /\ UNCHANGED bio_alloc_lock
    /\ UNCHANGED <<io_vars, map_vars, key_vars, req_vars, client_vars>>

\* crypt_endio of a write clone: crypt_free_buffer_pages, bio_put
crypt_endio_clone(c) ==
    /\ ab[c].pc = "dev"
    /\ SetPool(bio_for_each_segment_all(PoolState, ab[c].pages))
    /\ ab' = [ab EXCEPT ![c].pages = 0,
                        ![c].clone = crypt_free_buffer_pages(@),
                        ![c].pc = "done"]
    /\ UNCHANGED bio_alloc_lock
    /\ UNCHANGED <<io_vars, map_vars, key_vars, req_vars, client_vars>>

\* the configurations of the page-pool specification: with and without
\* integrity tags, no request in the pipeline
AllocCfgs ==
    [no_offload : {FALSE}, tag : BOOLEAN, sector_size : {1024}, iv_offset : {2},
     start : {8}, nreq : {0}, dirs : {{"WRITE"}},
     engine : {AllEngineResults}, faults : {TRUE}, diskcipher : {FALSE}]

\* the instance after crypt_ctr, with some memory left in the system
InitAlloc ==
    /\ \E free \in 0..MaxFree : LET st == mempool_create(MaxPages, free) IN
        /\ n_allocated_pages = st.n
        /\ page_pool = st.curr
        /\ nr_free_pages = st.free
    /\ bio_alloc_lock = 0
    /\ ab = [c \in Callers |-> NoClone]
    /\ InitIO(AllocCfgs)
    /\ IdleMap /\ IdleKey /\ IdleReq /\ IdleClients

AllocProgress(c) ==
    \/ crypt_alloc_buffer_retry(c)
    \/ crypt_alloc_buffer_page(c)
    \/ crypt_alloc_buffer_out(c)
    \/ kcryptd_crypt_write_io_submit_clone(c)
    \/ crypt_endio_clone(c)

NextAlloc ==
    \/ \E c \in Callers : crypt_alloc_buffer(c)
    \/ \E c \in Callers : crypt_alloc_buffer_retry(c)
    \/ \E c \in Callers : crypt_alloc_buffer_page(c)
    \/ \E c \in Callers : crypt_alloc_buffer_out(c)
    \/ \E c \in Callers : kcryptd_crypt_write_io_submit_clone(c)
    \/ \E c \in Callers : crypt_endio_clone(c)

SpecAlloc == InitAlloc /\ [][NextAlloc]_vars

\* every caller, the device and the engine get to run
FairSpecAlloc == SpecAlloc /\ \A c \in Callers : WF_vars(AllocProgress(c))

\* ------------------------------------------------- crypt_map, from its entry
MaxOver == 3
MaxBiSector == 3

\* 1 << SECTOR_SHIFT and PAGE_SIZE in bytes
SectorBytes == 2 ^ 9
PageBytes == 8 * SectorBytes

\* BIO_MAX_PAGES << PAGE_SHIFT, with BIO_MAX_PAGES scaled to MaxPages
MaxBioBytes == MaxPages * PageBytes

\* the bios crypt_map is called with
Bios ==
    [op : {"READ", "WRITE"}, bi_sector : 0..MaxBiSector,
     bi_size : {n * SectorBytes : n \in 1..(MaxBioBytes \div SectorBytes + MaxOver)},
     dev : {"dm"}]
    \cup [op : {"DISCARD"}, bi_sector : 0..MaxBiSector,
          bi_size : {n * SectorBytes : n \in 1..2}, dev : {"dm"}]
    \cup [op : {"FLUSH"}, bi_sector : {0}, bi_size : {0}, dev : {"dm"}]

\* the fields of crypt_config crypt_map reads
MapConfigs ==
    [sector_size : {SectorBytes, 2 * SectorBytes, 4 * SectorBytes, 8 * SectorBytes},
     on_disk_tag_size : {0, 4}, start : {8}]

\* tag_pool_max_sectors as crypt_ctr sets it: whole encryption sectors
tag_pool_max_sectors(cc) == 2 * (cc.sector_size \div SectorBytes)

\* the size of one entry of cc->tag_pool (mempool_create_kmalloc_pool)
tag_pool_entry_size(cc) ==
    (tag_pool_max_sectors(cc) \div (cc.sector_size \div SectorBytes))
        * cc.on_disk_tag_size

\* dm_accept_partial_bio(bio, n_sectors): the bio is cut and the core is told
dm_accept_partial_bio(m, n_sectors) ==
    [m EXCEPT !.bio.bi_size = n_sectors * SectorBytes, !.accepted = n_sectors]

\* a too-large test that forgets the reads with integrity metadata
bio_too_large_writes_only(cc, bio) ==
    bio.bi_size > MaxBioBytes /\ bio.op = "WRITE"

\* the too-large test of crypt_map
bio_too_large(cc, bio) ==
    /\ bio.bi_size > MaxBioBytes
    /\ (bio.op = "WRITE" \/ cc.on_disk_tag_size # 0)

\* an alignment test that looks at the start only
bio_misaligned_start_only(cc, bio) ==
    bio.bi_sector % (cc.sector_size \div SectorBytes) # 0

\* the two alignment tests of crypt_map: bi_sector against the sector size in
\* 512-byte units, bi_size against the sector size in bytes
bio_misaligned(cc, bio) ==
    \/ bio.bi_sector % (cc.sector_size \div SectorBytes) # 0
    \/ bio.bi_size % cc.sector_size # 0

\* the integrity metadata of an accepted request: kmalloc, or the tag pool,
\* for which a bio above tag_pool_max_sectors is cut
\* (meta_len: the bytes behind io->integrity_metadata, tag_len from kmalloc or
\* one entry of the tag pool)
map_integrity(m, kmalloc_ok) ==
    IF m.cc.on_disk_tag_size = 0 THEN m
    ELSE IF kmalloc_ok
    THEN [m EXCEPT !.integrity = "kmalloc",
                   !.meta_len = m.cc.on_disk_tag_size *
                       ((m.bio.bi_size \div SectorBytes)
                            \div (m.cc.sector_size \div SectorBytes))]
    ELSE [(IF m.bio.bi_size \div SectorBytes > tag_pool_max_sectors(m.cc)
           THEN dm_accept_partial_bio(m, tag_pool_max_sectors(m.cc))
           ELSE m) EXCEPT !.integrity = "pool",
                          !.meta_len = tag_pool_entry_size(m.cc)]

\* crypt_map(ti, bio)
crypt_map_bio(m, kmalloc_ok) ==
    IF m.bio.op \in {"FLUSH", "DISCARD"}
    THEN [m EXCEPT !.bio.dev = "lower",
                   !.bio.bi_sector = IF m.bio.bi_size # 0 THEN m.cc.start + @ ELSE @,
                   !.ret = "DM_MAPIO_REMAPPED"]
    ELSE LET m1 == IF bio_too_large(m.cc, m.bio)
                   THEN dm_accept_partial_bio(m, MaxBioBytes \div SectorBytes)
                   ELSE m
         IN IF bio_misaligned(m1.cc, m1.bio)
            THEN [m1 EXCEPT !.ret = "DM_MAPIO_KILL"]
            ELSE LET m2 == map_integrity([m1 EXCEPT !.io_init = TRUE,
                                                    !.io_sector = m1.bio.bi_sector],
                                         kmalloc_ok)
                 IN [m2 EXCEPT !.ret = "DM_MAPIO_SUBMITTED",
                               !.handoff = IF m.bio.op = "READ"
                                           THEN "kcryptd_io_read"
                                           ELSE "kcryptd_queue_crypt"]

crypt_map_call ==
    /\ mp.ret = "none"
    /\ \E kmalloc_ok \in BOOLEAN : mp' = crypt_map_bio(mp, kmalloc_ok)
    /\ UNCHANGED <<io_vars, alloc_vars, key_vars, req_vars, client_vars>>

\* dm_crypt_integrity_io_alloc(io, clone), called by kcryptd_io_read and by
\* crypt_alloc_buffer on a clone as long as the request crypt_map accepted
dm_crypt_integrity_io_alloc(m, alloc_ok, add_ok) ==
    IF m.bio.bi_size \div SectorBytes = 0 \/ m.cc.on_disk_tag_size = 0
    THEN [m EXCEPT !.bip = "no payload"]
    ELSE IF ~alloc_ok THEN [m EXCEPT !.bip = "ENOMEM"]
    ELSE LET tag_len == m.cc.on_disk_tag_size * (m.bio.bi_size \div SectorBytes)
         IN [m EXCEPT !.bip_size = tag_len,
                      !.bip_sector = m.cc.start + m.io_sector,
                      !.bip = IF add_ok THEN "attached" ELSE "ENOMEM"]

dm_crypt_integrity_io_alloc_call ==
    /\ mp.ret = "DM_MAPIO_SUBMITTED" /\ mp.bip = "none"
    /\ \E alloc_ok \in BOOLEAN, add_ok \in BOOLEAN :
          mp' = dm_crypt_integrity_io_alloc(mp, alloc_ok, add_ok)
    /\ UNCHANGED <<io_vars, alloc_vars, key_vars, req_vars, client_vars>>

InitMap ==
    /\ \E cc \in MapConfigs, bio \in Bios :
        mp = [cc |-> cc, bio |-> bio, bio0 |-> bio, ret |-> "none", accepted |-> 0,
              io_init |-> FALSE, io_sector |-> 0, integrity |-> "none",
              handoff |-> "none", meta_len |-> 0,
              bip |-> "none", bip_size |-> 0, bip_sector |-> 0]
    /\ InitIO(AllocCfgs) /\ IdleAlloc /\ IdleReq /\ IdleClients
    \* cc->flags when the request arrives: a valid key on a live device, or
    \* the flags "key wipe" leaves behind (crypt_wipe_key on a suspended device)
    /\ cc_flags \in {{"DM_CRYPT_KEY_VALID"}, {"DM_CRYPT_SUSPENDED"}}
    /\ cc_key = <<>> /\ cc_key_string = "" /\ iv_gen = "" /\ msg = <<>>

NextMap ==
    \/ crypt_map_call
    \/ dm_crypt_integrity_io_alloc_call

SpecMap == InitMap /\ [][NextMap]_vars

\* ------------------------------------------------------- the key messages
\* the key arguments of "key set": a hex string or a keyring reference
\* (:<size>:<type>:<desc>), of the right size or not, well-formed or not
KeyArgs ==
    [form : {"hex"}, val : {"K1", "K2"}, size_ok : BOOLEAN, good : BOOLEAN]
    \cup [form : {"keyring"}, val : {"R1"}, size_ok : BOOLEAN, good : BOOLEAN]

NoKeyArg == [form |-> "none", val |-> "", size_ok |-> FALSE, good |-> FALSE]

\* argv: the words, and the key argument behind them if there is one
Messages ==
    [w : {<<"key", "set">>}, a : KeyArgs]
    \cup [w : {<<"key", "wipe">>, <<"KEY", "Wipe">>, <<"key">>, <<"key", "set">>,
               <<"key", "wipe", "now">>, <<"resize", "8">>},
          a : {NoKeyArg}]

NoMessage == [w |-> <<>>, a |-> NoKeyArg]

argc(argv) == Len(argv.w) + (IF argv.a.form = "none" THEN 0 ELSE 1)

\* strcasecmp(a, b) == 0 on the words of the messages
tolower(w) == IF w = "KEY" THEN "key" ELSE IF w = "Wipe" THEN "wipe" ELSE w
strcasecmp_eq(a, b) == tolower(a) = tolower(b)

\* memset(s, '0', strlen(s)): the string is as long as it was, all '0'
memset_zeros(s) == IF s = "" THEN "" ELSE "0"

\* the key state of the instance, as one record
KeyState == [flags |-> cc_flags, key |-> cc_key.key, tfm |-> cc_key.tfm,
             key_string |-> cc_key_string, iv |-> iv_gen]

SetKeyState(k) ==
    /\ cc_flags' = k.flags
    /\ cc_key' = [key |-> k.key, tfm |-> k.tfm]
    /\ cc_key_string' = k.key_string
    /\ iv_gen' = k.iv

\* crypt_setkey: cc->key goes into the tfms; r is what the cipher answers
crypt_setkey(k, r) == [k EXCEPT !.tfm = IF r = "0" THEN k.key ELSE "unset"]

\* crypt_set_keyring_key: request_key, the payload is copied into cc->key,
\* DM_CRYPT_KEY_VALID is cleared, crypt_setkey, and on success the flag is set
\* and the key string kept
crypt_set_keyring_key(k, a, r) ==
    IF ~a.good THEN [k |-> k, ret |-> "ENOKEY"]
    ELSE IF ~a.size_ok THEN [k |-> k, ret |-> "EINVAL"]
    ELSE LET k1 == crypt_setkey([k EXCEPT !.key = a.val,
                                          !.flags = @ \ {"DM_CRYPT_KEY_VALID"}], r)
         IN IF r = "0"
            THEN [k |-> [k1 EXCEPT !.flags = @ \cup {"DM_CRYPT_KEY_VALID"},
                                   !.key_string = a.val],
                  ret |-> "0"]
            ELSE [k |-> k1, ret |-> r]

\* crypt_set_key: a keyring reference goes to crypt_set_keyring_key; a hex key
\* clears DM_CRYPT_KEY_VALID and the key string, is decoded by hex2bin into
\* cc->key (which stops at the first bad digit) and set with crypt_setkey
\* (out: memset(key, '0', key_string_len) on every path; arg is the caller's
\* string as the function leaves it)
crypt_set_key(k, a, r) ==
    LET k0 == [k EXCEPT !.flags = @ \ {"DM_CRYPT_KEY_VALID"},
                        !.key_string = "NULL"]
        out == IF a.form = "keyring" THEN crypt_set_keyring_key(k, a, r)
               ELSE IF ~a.good
               THEN [k |-> [k0 EXCEPT !.key = "partial"], ret |-> "EINVAL"]
               ELSE LET k1 == crypt_setkey([k0 EXCEPT !.key = a.val], r)
                    IN [k |-> IF r = "0"
                              THEN [k1 EXCEPT !.flags = @ \cup {"DM_CRYPT_KEY_VALID"}]
                              ELSE k1,
                        ret |-> r]
    IN [k |-> out.k, ret |-> out.ret, arg |-> memset_zeros(a.val)]

\* crypt_wipe_key: the flag is cleared, random bytes are set as the key of the
\* tfms, the key string is dropped and cc->key is zeroed
crypt_wipe_key(k, r) ==
    LET k1 == crypt_setkey([k EXCEPT !.flags = @ \ {"DM_CRYPT_KEY_VALID"},
                                     !.key = "random", !.key_string = "NULL"], r)
    IN [k |-> [k1 EXCEPT !.key = "zero"], ret |-> r]

\* cc->iv_gen_ops->init and ->wipe, where the generator has them
\* (crypt_iv_essiv_init: the salt is the digest of cc->key, then the key of the
\* essiv tfm; crypt_iv_essiv_wipe: the salt is zeroed, then set as that key)
iv_init(k, r) ==
    IF k.iv.ops = "plain" THEN [k |-> k, ret |-> "0"]
    ELSE [k |-> [k EXCEPT !.iv.state = IF r = "0" THEN k.key ELSE "unset"],
          ret |-> r]

iv_wipe(k, r) ==
    IF k.iv.ops = "plain" THEN [k |-> k, ret |-> "0"]
    ELSE [k |-> [k EXCEPT !.iv.state = IF r = "0" THEN "wiped" ELSE "unset"],
          ret |-> r]

\* a test of the suspended bit that always passes
key_message_allowed_always(flags) == TRUE

\* test_bit(DM_CRYPT_SUSPENDED, &cc->flags) in crypt_message
key_message_allowed(flags) == "DM_CRYPT_SUSPENDED" \in flags

\* crypt_message(ti, argc, argv); r_key, r_iv are the answers of the cipher
\* and of the IV generator
crypt_message_result(k, argv, r_key, r_iv) ==
    LET untouched(s) == [k |-> s.k, ret |-> s.ret, arg |-> argv.a.val]
        unrecognised == untouched([k |-> k, ret |-> "EINVAL"])
    IN
    IF argc(argv) < 2 THEN unrecognised
    ELSE IF ~strcasecmp_eq(argv.w[1], "key") THEN unrecognised
    ELSE IF ~key_message_allowed(k.flags) THEN untouched([k |-> k, ret |-> "EINVAL"])
    ELSE IF argc(argv) = 3 /\ strcasecmp_eq(argv.w[2], "set")
    THEN IF ~argv.a.size_ok
         THEN [k |-> k, ret |-> "EINVAL", arg |-> memset_zeros(argv.a.val)]
         ELSE LET s1 == crypt_set_key(k, argv.a, r_key) IN
              IF s1.ret # "0" THEN s1
              ELSE LET s2 == iv_init(s1.k, r_iv) IN
                   [k |-> IF s2.k.key_string # "NULL"
                          THEN [s2.k EXCEPT !.key = "zero"] ELSE s2.k,
                    ret |-> s2.ret, arg |-> s1.arg]
    ELSE IF argc(argv) = 2 /\ strcasecmp_eq(argv.w[2], "wipe")
    THEN LET s1 == iv_wipe(k, r_iv) IN
         untouched(IF s1.ret # "0" THEN s1 ELSE crypt_wipe_key(s1.k, r_key))
    ELSE unrecognised

CryptoResults == {"0", "EINVAL"}

\* the messages "key wipe" and "key set <key>" as crypt_message tells them
IsKeyWipe(argv) ==
    /\ argc(argv) = 2 /\ strcasecmp_eq(argv.w[1], "key")
    /\ strcasecmp_eq(argv.w[2], "wipe")

IsKeySet(argv) ==
    /\ argc(argv) = 3 /\ strcasecmp_eq(argv.w[1], "key")
    /\ strcasecmp_eq(argv.w[2], "set")

crypt_message ==
    \E argv \in Messages, r_key \in CryptoResults, r_iv \in CryptoResults :
        LET out == crypt_message_result(KeyState, argv, r_key, r_iv) IN
        /\ SetKeyState(out.k)
        /\ msg' = [op |-> "message", argv |-> argv, ret |-> out.ret,
                   suspended |-> "DM_CRYPT_SUSPENDED" \in cc_flags,
                   wiped |-> IF IsKeyWipe(argv) /\ "DM_CRYPT_SUSPENDED" \in cc_flags
                             THEN TRUE
                             ELSE IF IsKeySet(argv) /\ out.ret = "0" THEN FALSE
                             ELSE msg.wiped,
                   old |-> IF IsKeyWipe(argv) /\ "DM_CRYPT_SUSPENDED" \in cc_flags
                           THEN cc_key ELSE msg.old,
                   arg |-> out.arg]
        /\ UNCHANGED <<io_vars, alloc_vars, map_vars, req_vars, client_vars>>

crypt_postsuspend ==
    /\ cc_flags' = cc_flags \cup {"DM_CRYPT_SUSPENDED"}
    /\ msg' = [op |-> "postsuspend", argv |-> NoMessage, ret |-> "0",
               suspended |-> "DM_CRYPT_SUSPENDED" \in cc_flags,
               wiped |-> msg.wiped, old |-> msg.old, arg |-> ""]
    /\ UNCHANGED <<cc_key, cc_key_string, iv_gen>>
    /\ UNCHANGED <<io_vars, alloc_vars, map_vars, req_vars, client_vars>>

crypt_preresume ==
    /\ msg' = [op |-> "preresume", argv |-> NoMessage,
               ret |-> IF "DM_CRYPT_KEY_VALID" \in cc_flags THEN "0" ELSE "EAGAIN",
               suspended |-> "DM_CRYPT_SUSPENDED" \in cc_flags,
               wiped |-> msg.wiped, old |-> msg.old, arg |-> ""]
    /\ UNCHANGED <<cc_flags, cc_key, cc_key_string, iv_gen>>
    /\ UNCHANGED <<io_vars, alloc_vars, map_vars, req_vars, client_vars>>

\* crypt_resume, which the core calls after a crypt_preresume that returned 0
crypt_resume ==
    /\ msg.op = "preresume" /\ msg.ret = "0"
    /\ cc_flags' = cc_flags \ {"DM_CRYPT_SUSPENDED"}
    /\ msg' = [op |-> "resume", argv |-> NoMessage, ret |-> "0",
               suspended |-> "DM_CRYPT_SUSPENDED" \in cc_flags,
               wiped |-> msg.wiped, old |-> msg.old, arg |-> ""]
    /\ UNCHANGED <<cc_key, cc_key_string, iv_gen>>
    /\ UNCHANGED <<io_vars, alloc_vars, map_vars, req_vars, client_vars>>

\* the instance after crypt_ctr with a key: a hex key, or a keyring key whose
\* copy in cc->key was zeroed
InitKey ==
    /\ cc_flags = {"DM_CRYPT_KEY_VALID"}
    /\ \E a \in {"K1", "R1"} :
        /\ cc_key = [key |-> IF a = "R1" THEN "zero" ELSE a, tfm |-> a]
        /\ cc_key_string = IF a = "R1" THEN a ELSE "NULL"
        /\ \E gen \in {"plain", "essiv"} :
            iv_gen = [ops |-> gen, state |-> IF gen = "plain" THEN "none" ELSE a]
    /\ msg = [op |-> "ctr", argv |-> NoMessage, ret |-> "0", suspended |-> FALSE,
              wiped |-> FALSE, old |-> cc_key, arg |-> ""]
    /\ InitIO(AllocCfgs) /\ IdleAlloc /\ IdleMap /\ IdleReq /\ IdleClients

NextKey ==
    \/ crypt_message
    \/ crypt_postsuspend
    \/ crypt_preresume
    \/ crypt_resume

SpecKey == InitKey /\ [][NextKey]_vars

\* ------------------------------------------------------ the IV generators
\* a u64 is held as its eight bytes, least significant first; an IV is held as
\* its bytes in memory order
zeros(n) == [i \in 1..n |-> 0]

\* cpu_to_le32(x & 0xffffffff), cpu_to_le64(x), cpu_to_be64(x): the bytes stored
cpu_to_le32(x) == SubSeq(x, 1, 4)
cpu_to_le64(x) == x
cpu_to_be64(x) == [i \in 1..8 |-> x[9 - i]]

\* (u64)x << k, for k below 8
shl64(x, k) ==
    [i \in 1..8 |-> ((x[i] * 2 ^ k) % 256)
                      + (IF i = 1 THEN 0 ELSE x[i - 1] \div 2 ^ (8 - k))]

\* (u64)x + 1
inc64(x) ==
    [i \in 1..8 |-> IF \A j \in 1..(i - 1) : x[j] = 255
                    THEN (x[i] + 1) % 256 ELSE x[i]]

\* crypt_iv_benbi_ctr: shift = 9 - ilog2(cipher block size)
ilog2(bs) == CHOOSE l \in 0..9 : 2 ^ l <= bs /\ bs < 2 ^ (l + 1)
benbi_shift(bs) == 9 - ilog2(bs)

crypt_iv_plain_gen(cc, iv_sector) ==
    cpu_to_le32(iv_sector) \o zeros(cc.iv_size - 4)

\* a 64-bit generator that stores the low word only
crypt_iv_plain64_gen_low_word(cc, iv_sector) ==
    cpu_to_le32(iv_sector) \o zeros(cc.iv_size - 4)

crypt_iv_plain64_gen(cc, iv_sector) ==
    cpu_to_le64(iv_sector) \o zeros(cc.iv_size - 8)

crypt_iv_plain64be_gen(cc, iv_sector) ==
    zeros(cc.iv_size - 8) \o cpu_to_be64(iv_sector)

crypt_iv_benbi_gen(cc, iv_sector) ==
    zeros(cc.iv_size - 8) \o cpu_to_be64(inc64(shl64(iv_sector, cc.shift)))

\* cc->iv_gen_ops->generator
iv_generator(cc, iv_sector) ==
    CASE cc.mode = "plain" -> crypt_iv_plain_gen(cc, iv_sector)
      [] cc.mode = "plain64" -> crypt_iv_plain64_gen(cc, iv_sector)
      [] cc.mode = "plain64be" -> crypt_iv_plain64be_gen(cc, iv_sector)
      [] cc.mode = "benbi" -> crypt_iv_benbi_gen(cc, iv_sector)

\* the sector numbers the generators are run on: the low byte, the top byte of
\* the low word, the first byte above it and the top byte vary
IvSectors ==
    {<<b1, 0, 0, b4, b5, 0, 0, b8>> :
        b1 \in {0, 1, 255}, b4 \in {0, 255}, b5 \in {0, 1}, b8 \in {0, 1, 8}}

\* the generator, the IV size (the cipher's, 8 or 16 bytes) and benbi's shift
IvConfigs ==
    [mode : {"plain", "plain64", "plain64be"}, iv_size : {8, 16}, shift : {0}]
    \cup {[mode |-> "benbi", iv_size |-> bs, shift |-> benbi_shift(bs)] :
              bs \in {8, 16}}

\* the IV of the k-th of two sectors is generated
crypt_iv_gen(k) ==
    /\ dmreq.iv[k] = <<>>
    /\ dmreq' = [dmreq EXCEPT !.iv[k] = iv_generator(dmreq.cc, dmreq.iv_sector[k])]
    /\ UNCHANGED <<io_vars, alloc_vars, map_vars, key_vars, client_vars>>

InitIv ==
    /\ \E cc \in IvConfigs, s1 \in IvSectors, s2 \in IvSectors :
          dmreq = [cc |-> cc, iv_sector |-> <<s1, s2>>, iv |-> <<<<>>, <<>>>>]
    /\ InitIO(AllocCfgs) /\ IdleAlloc /\ IdleMap /\ IdleKey /\ IdleClients

NextIv == \E k \in 1..2 : crypt_iv_gen(k)

SpecIv == InitIv /\ [][NextIv]_vars

\* ------------------------------------------- the conversion of one sector
\* a sector of data is a sequence of cipher blocks, a block a sequence of
\* iv_size bytes; UnitBlocks blocks stand for 512 bytes
UnitBlocks == 2

\* a xor b on n-bit values
RECURSIVE xor_bits(_, _, _)
xor_bits(a, b, n) ==
    IF n = 0 THEN 0
    ELSE ((a + b) % 2) + 2 * xor_bits(a \div 2, b \div 2, n - 1)

\* crypto_xor(dst, src, len) and crypto_xor_cpy on byte sequences
crypto_xor(a, b) == [i \in 1..Len(a) |-> xor_bits(a[i], b[i], 8)]

\* a sector number below 2^24 as the eight bytes of a u64
u64_bytes(n) == [i \in 1..8 |-> IF i <= 3 THEN (n \div 256 ^ (i - 1)) % 256 ELSE 0]

\* the block cipher under key k: a permutation of the blocks, and its inverse
crypto_cipher_encrypt_one(k, blk) ==
    [i \in 1..Len(blk) |-> (3 * blk[(i % Len(blk)) + 1] + k + i) % 256]

crypto_cipher_decrypt_one(k, blk) ==
    [j \in 1..Len(blk) |->
        LET i == ((j + Len(blk) - 2) % Len(blk)) + 1
        IN (171 * (blk[i] + 512 - k - i)) % 256]

\* crypto_skcipher_encrypt and crypto_skcipher_decrypt of a cbc(cipher) tfm:
\* the blocks are chained through the IV
RECURSIVE cbc_encrypt(_, _, _)
cbc_encrypt(k, iv, blocks) ==
    IF blocks = <<>> THEN <<>>
    ELSE LET c == crypto_cipher_encrypt_one(k, crypto_xor(Head(blocks), iv))
         IN <<c>> \o cbc_encrypt(k, c, Tail(blocks))

RECURSIVE cbc_decrypt(_, _, _)
cbc_decrypt(k, iv, blocks) ==
    IF blocks = <<>> THEN <<>>
    ELSE <<crypto_xor(crypto_cipher_decrypt_one(k, Head(blocks)), iv)>>
             \o cbc_decrypt(k, Head(blocks), Tail(blocks))

\* crc32 of four bytes, and the md5 state exported after the seed, the blocks
\* after the first and the 16 bytes of buf were hashed
crc32(x) == [i \in 1..4 |-> (5 * x[i] + x[(i % 4) + 1] + 1) % 256]

RECURSIVE md5_update(_, _)
md5_update(st, blocks) ==
    IF blocks = <<>> THEN st
    ELSE md5_update([i \in 1..Len(st) |->
                        (7 * st[i] + Head(blocks)[i] + st[(i % Len(st)) + 1]) % 256],
                    Tail(blocks))

crypt_iv_essiv_gen(cc, iv_sector) ==
    crypto_cipher_encrypt_one(cc.salt, cpu_to_le64(iv_sector) \o zeros(cc.iv_size - 8))

crypt_iv_null_gen(cc, iv_sector) == zeros(cc.iv_size)

\* crypt_iv_lmk_one: the seed if there is one, the blocks of the 512-byte
\* sector after the first, then buf: the sector cropped to 56 bits with the
\* top bit set, 4024, 0
crypt_iv_lmk_one(cc, iv_sector, data) ==
    LET buf == <<SubSeq(iv_sector, 1, 4)
                   \o <<iv_sector[5], iv_sector[6], iv_sector[7], 128>>
                   \o <<184, 15, 0, 0>> \o zeros(4)>>
        seeded == IF cc.seed = <<>> THEN zeros(16)
                  ELSE md5_update(zeros(16), <<cc.seed>>)
    IN SubSeq(md5_update(md5_update(seeded, SubSeq(data, 2, UnitBlocks)), buf),
              1, cc.iv_size)

crypt_iv_lmk_gen(cc, dir, iv_sector, data) ==
    IF dir = "WRITE" THEN crypt_iv_lmk_one(cc, iv_sector, data)
    ELSE zeros(cc.iv_size)

\* the first block of the decrypted sector is tweaked with the IV of its data
crypt_iv_lmk_post(cc, dir, iv_sector, data) ==
    IF dir = "WRITE" THEN data
    ELSE [data EXCEPT ![1] = crypto_xor(@, crypt_iv_lmk_one(cc, iv_sector, data))]

\* crypt_iv_tcw_whitening: eight bytes made of the whitening seed, the sector
\* and crc32 are xored over the 512-byte sector
crypt_iv_tcw_whitening(cc, iv_sector, data) ==
    LET b0 == crypto_xor(SubSeq(cc.whitening, 1, 8), iv_sector)
                  \o crypto_xor(SubSeq(cc.whitening, 9, 16), iv_sector)
        b1 == crc32(SubSeq(b0, 1, 4)) \o crc32(SubSeq(b0, 5, 8))
                  \o crc32(SubSeq(b0, 9, 12)) \o crc32(SubSeq(b0, 13, 16))
        w == crypto_xor(SubSeq(b1, 1, 4), SubSeq(b1, 13, 16))
                 \o crypto_xor(SubSeq(b1, 5, 8), SubSeq(b1, 9, 12))
    IN [j \in 1..Len(data) |->
           IF j <= UnitBlocks THEN crypto_xor(data[j], w \o w) ELSE data[j]]

\* crypt_iv_tcw_gen: a read has the whitening removed from its ciphertext;
\* the IV is the seed xored with the sector
crypt_iv_tcw_gen(cc, dir, iv_sector, data) ==
    [src |-> IF dir # "WRITE" THEN crypt_iv_tcw_whitening(cc, iv_sector, data)
             ELSE data,
     iv |-> crypto_xor(SubSeq(cc.iv_seed, 1, 8), iv_sector)
                \o crypto_xor(SubSeq(cc.iv_seed, 9, cc.iv_size),
                              SubSeq(iv_sector, 1, cc.iv_size - 8))]

crypt_iv_tcw_post(cc, dir, iv_sector, data) ==
    IF dir # "WRITE" THEN data ELSE crypt_iv_tcw_whitening(cc, iv_sector, data)

\* get_random_bytes(iv, cc->iv_size): rnd is what it delivers
crypt_iv_random_gen(cc, rnd) == rnd

\* cc->iv_gen_ops->generator(cc, org_iv, dmreq): the IV, and the data behind
\* sg_in as the generator leaves it
iv_gen_ops_generator(cc, dir, iv_sector, data, rnd) ==
    CASE cc.mode = "essiv" -> [iv |-> crypt_iv_essiv_gen(cc, iv_sector), src |-> data]
      [] cc.mode = "null" -> [iv |-> crypt_iv_null_gen(cc, iv_sector), src |-> data]
      [] cc.mode = "lmk" ->
             [iv |-> crypt_iv_lmk_gen(cc, dir, iv_sector, data), src |-> data]
      [] cc.mode = "tcw" -> crypt_iv_tcw_gen(cc, dir, iv_sector, data)
      [] cc.mode = "random" -> [iv |-> crypt_iv_random_gen(cc, rnd), src |-> data]
      [] OTHER -> [iv |-> iv_generator(cc, iv_sector), src |-> data]

\* cc->iv_gen_ops->post(cc, org_iv, dmreq) on the data behind sg_out
iv_gen_ops_post(cc, dir, iv_sector, data) ==
    CASE cc.mode = "lmk" -> crypt_iv_lmk_post(cc, dir, iv_sector, data)
      [] cc.mode = "tcw" -> crypt_iv_tcw_post(cc, dir, iv_sector, data)
      [] OTHER -> data

\* a conversion whose read side always generates its IV
integrity_iv_size_none(cc) == 0

\* cc->integrity_iv_size: the IV is kept in the integrity metadata
integrity_iv_size(cc) == IF cc.mode = "random" THEN cc.iv_size ELSE 0

\* a builder that generates the IV of every request, reads included
iv_from_tag_never(cc, dir) == FALSE

\* "For READs use IV stored in integrity metadata"
iv_from_tag(cc, dir) == integrity_iv_size(cc) # 0 /\ dir # "WRITE"

\* an IV sector that stays in 512-byte units on every device
dmreq_iv_sector_unshifted(cc, cc_sector) == cc_sector

\* "dmreq->iv_sector = ctx->cc_sector", shifted right by cc->sector_shift with
\* CRYPT_IV_LARGE_SECTORS
dmreq_iv_sector(cc, cc_sector) ==
    IF cc.iv_large_sectors
    THEN cc_sector \div 2 ^ ilog2(cc.sector_size \div SectorBytes)
    ELSE cc_sector

\* crypt_convert_block_skcipher on the sector at cc_sector: data is the sector
\* behind sg_in, tag_iv the IV slot of the sector in the integrity metadata;
\* the result is the sector behind sg_out, the IV slot, the IV handed to the
\* cipher and whether the generator was called
crypt_convert_block_skcipher(cc, dir, cc_sector, data, tag_iv, rnd) ==
    LET iv_sector == u64_bytes(dmreq_iv_sector(cc, cc_sector))
        from_tag == iv_from_tag(cc, dir)
        g == IF from_tag THEN [iv |-> tag_iv, src |-> data]
             ELSE iv_gen_ops_generator(cc, dir, iv_sector, data, rnd)
        out == IF dir = "WRITE" THEN cbc_encrypt(cc.key, g.iv, g.src)
               ELSE cbc_decrypt(cc.key, g.iv, g.src)
    IN [data |-> iv_gen_ops_post(cc, dir, iv_sector, out),
        tag_iv |-> IF ~from_tag /\ integrity_iv_size(cc) # 0 THEN g.iv ELSE tag_iv,
        iv |-> g.iv, generated |-> ~from_tag,
        iv_sector |-> dmreq_iv_sector(cc, cc_sector)]

\* the devices the constructor accepts: every generator with sector sizes
\* 512, 1024 and 4096, lmk and tcw with 512 only (crypt_iv_lmk_ctr,
\* crypt_iv_tcw_ctr), lmk with and without a seed
ConvertConfigs ==
    LET base == [iv_size |-> 16, shift |-> benbi_shift(16), key |-> 7, salt |-> 11,
                 seed |-> <<>>,
                 iv_seed |-> [i \in 1..16 |-> 16 * i - 1],
                 whitening |-> [i \in 1..16 |-> 255 - 9 * i]]
        dev(mode, size, large, seed) ==
            [base EXCEPT !.seed = seed] @@
            [mode |-> mode, sector_size |-> size, iv_large_sectors |-> large]
    IN {dev(mode, size, large, <<>>) :
            mode \in {"plain", "plain64", "plain64be", "benbi", "essiv", "null",
                      "random"},
            size \in {SectorBytes, 2 * SectorBytes, 8 * SectorBytes},
            large \in BOOLEAN}
       \cup {dev("lmk", SectorBytes, FALSE, seed) :
                 seed \in {<<>>, [i \in 1..16 |-> 3 * i]}}
       \cup {dev("tcw", SectorBytes, FALSE, <<>>)}

\* the plaintext of the k-th sector of a request, nb blocks of 16 bytes
PlainSector(a, k, nb) ==
    [j \in 1..nb |-> [i \in 1..16 |-> (a * (16 * j + i) + 31 * k + a) % 256]]

\* what get_random_bytes may deliver
RandomIvs == {[i \in 1..16 |-> 1], [i \in 1..16 |-> 16 * i - 9]}

\* sector_step of crypt_convert
convert_sector_step(cc) == cc.sector_size \div SectorBytes

\* crypt_convert_init and "tag_offset = 0" of crypt_convert: the cursors of one
\* conversion of the request that starts at sector
convert_context(cc, sector) ==
    [cc_sector |-> sector + cc.iv_offset, tag_offset |-> 0]

\* the end of one turn of the loop: "ctx->cc_sector += sector_step; tag_offset++"
convert_context_next(cc, ctx) ==
    [cc_sector |-> ctx.cc_sector + convert_sector_step(cc),
     tag_offset |-> ctx.tag_offset + 1]

\* the tag slot at tag_offset of the integrity metadata is written
tag_slot_store(tags, tag_offset, v) ==
    IF tag_offset = Len(tags) THEN Append(tags, v)
    ELSE [tags EXCEPT ![tag_offset + 1] = v]

\* one turn of crypt_convert's loop for a write: the next sector of the
\* request is encrypted into the clone, which is what the device stores
crypt_convert_write ==
    /\ dmreq.w <= Len(dmreq.plain)
    /\ \E rnd \in RandomIvs :
        LET c == crypt_convert_block_skcipher(
                     dmreq.cc, "WRITE", dmreq.wctx.cc_sector,
                     dmreq.plain[dmreq.w], zeros(16), rnd)
        IN dmreq' = [dmreq EXCEPT !.w = @ + 1,
                                  !.disk = Append(@, c.data),
                                  !.tags = tag_slot_store(@, dmreq.wctx.tag_offset,
                                                          c.tag_iv),
                                  !.wiv = Append(@, c.iv),
                                  !.wsub = Append(@, [iv_sector |-> c.iv_sector,
                                                      tag |-> dmreq.wctx.tag_offset]),
                                  !.wctx = convert_context_next(dmreq.cc, @)]
    /\ UNCHANGED <<io_vars, alloc_vars, map_vars, key_vars, client_vars>>

\* one turn of crypt_convert's loop for the read of the same sectors: the
\* sector the device delivered is decrypted in place
crypt_convert_read ==
    /\ dmreq.w > Len(dmreq.plain)
    /\ dmreq.r <= Len(dmreq.plain)
    /\ \E rnd \in RandomIvs :
        LET c == crypt_convert_block_skcipher(
                     dmreq.cc, "READ", dmreq.rctx.cc_sector,
                     dmreq.disk[dmreq.r], dmreq.tags[dmreq.rctx.tag_offset + 1], rnd)
        IN dmreq' = [dmreq EXCEPT !.r = @ + 1, !.back = Append(@, c.data),
                                  !.riv = Append(@, c.iv),
                                  !.rgen = Append(@, c.generated),
                                  !.rsub = Append(@, [iv_sector |-> c.iv_sector,
                                                      tag |-> dmreq.rctx.tag_offset]),
                                  !.rctx = convert_context_next(dmreq.cc, @)]
    /\ UNCHANGED <<io_vars, alloc_vars, map_vars, key_vars, client_vars>>

\* where the requests start, and the iv_offset of the table line
ConvertStarts ==
    {[sector |-> 0, iv_offset |-> 0], [sector |-> 8, iv_offset |-> 3],
     [sector |-> 264, iv_offset |-> 0]}

InitConvert ==
    /\ \E dev \in ConvertConfigs, a \in {0, 1, 37}, n \in 1..MaxSect,
          at \in ConvertStarts :
          LET cc == dev @@ [iv_offset |-> at.iv_offset] IN
          dmreq = [cc |-> cc,
                   sector |-> at.sector,
                   wctx |-> convert_context(cc, at.sector),
                   rctx |-> convert_context(cc, at.sector),
                   wsub |-> <<>>, rsub |-> <<>>,
                   plain |-> [k \in 1..n |->
                                 PlainSector(a, k, UnitBlocks * convert_sector_step(cc))],
                   w |-> 1, disk |-> <<>>, tags |-> <<>>,
                   r |-> 1, back |-> <<>>,
                   wiv |-> <<>>, riv |-> <<>>, rgen |-> <<>>]
    /\ InitIO(AllocCfgs) /\ IdleAlloc /\ IdleMap /\ IdleKey /\ IdleClients

NextConvert ==
    \/ crypt_convert_write
    \/ crypt_convert_read

SpecConvert == InitConvert /\ [][NextConvert]_vars

\* ------------------------------------------------ the clients of the pool
MaxTargets == 4

Targets == 1..MaxTargets

\* DM_CRYPT_MEMORY_PERCENT, and DM_CRYPT_MIN_PAGES_PER_CLIENT: BIO_MAX_PAGES * 16
\* with BIO_MAX_PAGES 256
DM_CRYPT_MEMORY_PERCENT == 2
DM_CRYPT_MIN_PAGES_PER_CLIENT == 4096

\* totalram_pages - totalhigh_pages: systems whose share is below the floor
\* for every number of clients, for some, and for none
LowPages == {100000, 500000, 2000000}

\* a recalculation that leaves the quota as it was
crypt_calculate_pages_per_client_stale(cl) == cl

\* crypt_calculate_pages_per_client, under dm_crypt_clients_lock
crypt_calculate_pages_per_client(cl) ==
    LET pages == (cl.low_pages * DM_CRYPT_MEMORY_PERCENT) \div 100 IN
    IF cl.n = 0 THEN cl
    ELSE [cl EXCEPT !.pages_per_client =
             IF pages \div cl.n < DM_CRYPT_MIN_PAGES_PER_CLIENT
             THEN DM_CRYPT_MIN_PAGES_PER_CLIENT ELSE pages \div cl.n]

\* crypt_dtr(ti): nothing without ti->private; else the instance is freed, the
\* count goes down and the quota is recalculated
crypt_dtr(cl, t) ==
    IF cl.ti[t] = "NULL" THEN cl
    ELSE crypt_calculate_pages_per_client(
             [cl EXCEPT !.ti[t] = "NULL", !.n = @ - 1])

\* the places crypt_ctr fails at before it has a crypt_config, and after
\* (the first and the last of each, and crypt_ctr_cipher)
CtrEarlyFailures == {"argc", "kzalloc"}
CtrLateFailures == {"percpu_counter_init", "crypt_ctr_cipher", "kthread_create"}

\* crypt_ctr up to the unlock of dm_crypt_clients_lock: ti->private = cc, the
\* count goes up and the quota is recalculated
crypt_ctr_attach(t) ==
    /\ dm_crypt_clients.ti[t] = "NULL"
    /\ \E fail \in CtrEarlyFailures \cup {"none"} :
        dm_crypt_clients' =
            IF fail # "none"
            THEN [dm_crypt_clients EXCEPT !.ret[t] = fail]
            ELSE crypt_calculate_pages_per_client(
                     [dm_crypt_clients EXCEPT !.ti[t] = "ctr", !.n = @ + 1,
                                              !.ret[t] = "none"])
    /\ UNCHANGED <<io_vars, alloc_vars, map_vars, key_vars, req_vars, page_alloc, cc_cipher>>

\* the rest of crypt_ctr: return 0, or goto bad and crypt_dtr
crypt_ctr_finish(t) ==
    /\ dm_crypt_clients.ti[t] = "ctr"
    /\ \E fail \in CtrLateFailures \cup {"none"} :
        dm_crypt_clients' =
            IF fail # "none"
            THEN [crypt_dtr(dm_crypt_clients, t) EXCEPT !.ret[t] = fail]
            ELSE [dm_crypt_clients EXCEPT !.ti[t] = "live", !.ret[t] = "0"]
    /\ UNCHANGED <<io_vars, alloc_vars, map_vars, key_vars, req_vars, page_alloc, cc_cipher>>

\* the core calls crypt_dtr on a target it constructed
crypt_dtr_call(t) ==
    /\ dm_crypt_clients.ti[t] = "live"
    /\ dm_crypt_clients' = [crypt_dtr(dm_crypt_clients, t) EXCEPT !.ret[t] = "dtr"]
    /\ UNCHANGED <<io_vars, alloc_vars, map_vars, key_vars, req_vars, page_alloc, cc_cipher>>

\* the module is loaded: no client, the quota is the zero of a static variable
InitClients ==
    /\ \E low \in LowPages :
        dm_crypt_clients = [n |-> 0, pages_per_client |-> 0, low_pages |-> low,
                            ti |-> [t \in Targets |-> "NULL"],
                            ret |-> [t \in Targets |-> "none"]]
    /\ page_alloc = <<>> /\ cc_cipher = <<>>
    /\ InitIO(AllocCfgs) /\ IdleAlloc /\ IdleMap /\ IdleKey /\ IdleReq

NextClients ==
    \/ \E t \in Targets : crypt_ctr_attach(t)
    \/ \E t \in Targets : crypt_ctr_finish(t)
    \/ \E t \in Targets : crypt_dtr_call(t)

SpecClients == InitClients /\ [][NextClients]_vars

\* ------------------------------------------ the quota of one instance
MaxAllocators == 4
MaxHeld == 2

Allocators == 1..MaxAllocators

\* a comparison that always finds the counter below the quota
percpu_counter_compare_below(n, rhs) == -1

\* percpu_counter_compare(&cc->n_allocated_pages, rhs): the sign of n - rhs
percpu_counter_compare(n, rhs) == IF n > rhs THEN 1 ELSE IF n = rhs THEN 0 ELSE -1

NoPageCall == [pc |-> "idle", held |-> 0, ret |-> "none"]

\* mempool_alloc calls crypt_page_alloc with __GFP_NORETRY: the test of the
\* counter against the quota, NULL when the quota is reached
crypt_page_alloc_test(c) ==
    /\ page_alloc[c].pc = "idle"
    /\ page_alloc[c].held < MaxHeld
    /\ page_alloc' =
           IF percpu_counter_compare(n_allocated_pages, dm_crypt_pages_per_client) >= 0
           THEN [page_alloc EXCEPT ![c].ret = "NULL"]
           ELSE [page_alloc EXCEPT ![c].pc = "alloc_page", ![c].ret = "none"]
    /\ UNCHANGED <<io_vars, alloc_vars, map_vars, key_vars, req_vars, dm_crypt_clients, cc_cipher>>

\* page = alloc_page(gfp_mask): NULL when the system has no page to give
crypt_page_alloc_page(c) ==
    /\ page_alloc[c].pc = "alloc_page"
    /\ IF nr_free_pages = 0
       THEN /\ page_alloc' = [page_alloc EXCEPT ![c].pc = "idle", ![c].ret = "NULL"]
            /\ UNCHANGED nr_free_pages
       ELSE /\ page_alloc' = [page_alloc EXCEPT ![c].pc = "count"]
            /\ nr_free_pages' = nr_free_pages - 1
    /\ UNCHANGED <<n_allocated_pages, page_pool, bio_alloc_lock, ab>>
    /\ UNCHANGED <<io_vars, map_vars, key_vars, req_vars, dm_crypt_clients, cc_cipher>>

\* percpu_counter_add(&cc->n_allocated_pages, 1) and return page
crypt_page_alloc_count(c) ==
    /\ page_alloc[c].pc = "count"
    /\ n_allocated_pages' = n_allocated_pages + 1
    /\ page_alloc' = [page_alloc EXCEPT ![c].pc = "idle", ![c].held = @ + 1,
                                        ![c].ret = "page"]
    /\ UNCHANGED <<page_pool, bio_alloc_lock, ab, nr_free_pages>>
    /\ UNCHANGED <<io_vars, map_vars, key_vars, req_vars, dm_crypt_clients, cc_cipher>>

\* mempool_free of a page the thread holds: the reserve is full, the page goes
\* back through crypt_page_free
crypt_page_free_call(c) ==
    /\ page_alloc[c].pc = "idle"
    /\ page_alloc[c].held > 0
    /\ SetPool(mempool_free(PoolState))
    /\ page_alloc' = [page_alloc EXCEPT ![c].held = @ - 1, ![c].ret = "none"]
    /\ UNCHANGED <<bio_alloc_lock, ab>>
    /\ UNCHANGED <<io_vars, map_vars, key_vars, req_vars, dm_crypt_clients, cc_cipher>>

\* the instance after crypt_ctr: the reserve of the pool is allocated and
\* counted, no thread is in the allocator
InitQuota ==
    /\ LET st == mempool_create(MaxPages, MaxAllocators + 1) IN
        /\ n_allocated_pages = st.n
        /\ page_pool = st.curr
        /\ nr_free_pages = st.free
    /\ bio_alloc_lock = 0
    /\ ab = <<>>
    /\ page_alloc = [c \in Allocators |-> NoPageCall]
    /\ dm_crypt_clients = <<>> /\ cc_cipher = <<>>
    /\ InitIO(AllocCfgs)
    /\ IdleMap /\ IdleKey /\ IdleReq

NextQuota ==
    \/ \E c \in Allocators : crypt_page_alloc_test(c)
    \/ \E c \in Allocators : crypt_page_alloc_page(c)
    \/ \E c \in Allocators : crypt_page_alloc_count(c)
    \/ \E c \in Allocators : crypt_page_free_call(c)

SpecQuota == InitQuota /\ [][NextQuota]_vars

\* ------------------------------------------ crypt_ctr_cipher: the key geometry
\* the key lengths of the table line, in bytes (get_key_size: half the hex digits)
KeySizes == {16, 24, 32, 33, 48, 64, 65, 1024, 1025, 1040, 1088}

\* the key counts of a legacy cipher specification cipher[:keycount]-mode-iv
KeyCounts == {1, 2, 3, 64}

TCW_WHITENING_SIZE == 16

\* the ciphers of the crypto API: the key lengths crypto_skcipher_setkey takes
\* and crypto_skcipher_ivsize of their cbc mode
skcipher_keysizes(alg) == IF alg = "aes" THEN {16, 24, 32} ELSE 4..56
skcipher_ivsize(alg) == IF alg = "aes" THEN 16 ELSE 8

is_power_of_2(n) == n \in {2 ^ e : e \in 0..6}

\* crypt_ctr_cipher_old / crypt_ctr_cipher_new: tfms_count and key_parts
crypt_ctr_cipher_format(c) ==
    IF c.capi
    THEN LET n == IF c.ivmode = "lmk" THEN 64 ELSE 1
         IN [c EXCEPT !.tfms_count = n, !.key_parts = n]
    ELSE IF ~is_power_of_2(c.keycount) THEN [c EXCEPT !.ret = "-EINVAL"]
    ELSE [c EXCEPT !.tfms_count = c.keycount, !.key_parts = c.keycount]

\* crypt_ctr_ivmode: the IV size, and the extra keys of lmk and tcw
crypt_ctr_ivmode(c) ==
    LET c1 == [c EXCEPT !.iv_size = skcipher_ivsize(c.alg)] IN
    CASE c.ivmode = "lmk" ->
             IF c1.key_size % c1.key_parts # 0
             THEN [c1 EXCEPT !.key_parts = @ + 1,
                             !.key_extra_size = c1.key_size \div (c1.key_parts + 1)]
             ELSE c1
      [] c.ivmode = "tcw" ->
             [c1 EXCEPT !.key_parts = @ + 2,
                        !.key_extra_size = c1.iv_size + TCW_WHITENING_SIZE]
      [] OTHER -> c1

\* crypt_subkey_size: tfms_count is a power of two; the arithmetic is unsigned,
\* a key shorter than its extra part wraps to 2^32 - d, more than 2^25 after
\* the largest shift and longer than any key a cipher takes (INT_MAX stands
\* for it)
crypt_subkey_size(c) ==
    IF c.key_size >= c.key_extra_size
    THEN (c.key_size - c.key_extra_size) \div c.tfms_count
    ELSE 2147483647

\* crypt_setkey of a plain skcipher device: every tfm is given subkey_size bytes
crypt_setkey_tfms(c) ==
    IF crypt_subkey_size(c) \in skcipher_keysizes(c.alg) THEN c
    ELSE [c EXCEPT !.ret = "-EINVAL"]

\* cc->iv_gen_ops->ctr: crypt_iv_tcw_ctr refuses a key without room for a cipher key
iv_gen_ops_ctr(c) ==
    IF c.ivmode = "tcw" /\ c.key_size <= c.iv_size + TCW_WHITENING_SIZE
    THEN [c EXCEPT !.ret = "-EINVAL"] ELSE c

\* crypt_ctr_cipher: the format, the IV mode, the key, the IV constructor
crypt_ctr_cipher(c) ==
    LET c1 == crypt_ctr_cipher_format(c)
        c2 == IF c1.ret = "none" THEN crypt_ctr_ivmode(c1) ELSE c1
        c3 == IF c2.ret = "none" THEN crypt_setkey_tfms(c2) ELSE c2
        c4 == IF c3.ret = "none" THEN iv_gen_ops_ctr(c3) ELSE c3
    IN IF c4.ret = "none" THEN [c4 EXCEPT !.ret = "0"] ELSE c4

crypt_ctr_cipher_call ==
    /\ cc_cipher.ret = "none"
    /\ cc_cipher' = crypt_ctr_cipher(cc_cipher)
    /\ UNCHANGED <<io_vars, alloc_vars, map_vars, key_vars, req_vars,
                   dm_crypt_clients, page_alloc>>

\* a table line: legacy or capi format, cipher, key count, IV mode and key
InitCipher ==
    /\ \E capi \in BOOLEAN, alg \in {"aes", "blowfish"}, keycount \in KeyCounts,
          ivmode \in {"plain", "plain64", "essiv", "benbi", "null", "lmk", "tcw",
                      "random"},
          key_size \in KeySizes :
          cc_cipher = [capi |-> capi, alg |-> alg, keycount |-> keycount,
                       ivmode |-> ivmode, key_size |-> key_size,
                       tfms_count |-> 0, key_parts |-> 0, key_extra_size |-> 0,
                       iv_size |-> 0, ret |-> "none"]
    /\ dm_crypt_clients = <<>> /\ page_alloc = <<>>
    /\ InitIO(AllocCfgs) /\ IdleAlloc /\ IdleMap /\ IdleKey /\ IdleReq

NextCipher == crypt_ctr_cipher_call

SpecCipher == InitCipher /\ [][NextCipher]_vars

\* ------------------------------------------------------------- the claims
Accepted(r) == pc[r].iow # "new"
Acked(r) == h[r].acks >= 1

\* C1: the final cleanup of crypt_dec_pending (bio_endio of the original request)
\* runs exactly once for every accepted request.
C1_AcknowledgedOnce == \A r \in Reqs : h[r].acks <= 1

\* C2: if a non-zero error was recorded on the I/O tracking record before the
\* request was acknowledged, the request is acknowledged with a non-zero status.
C2_RecordedErrorSurfaced ==
    \A r \in Reqs : (Acked(r) /\ h[r].err_rec) => h[r].status # "OK"

\* the cipher submissions crypt_convert owes a request: one per sector-group,
\* with its own sector number, data position and tag slot
Expected(r) ==
    [k \in 1..io[r].size |->
        [sector |-> h[r].sector + cfg.iv_offset + (k - 1) * sector_step,
         pos |-> k - 1, tag |-> k - 1]]

IsPrefix(a, b) == Len(a) <= Len(b) /\ \A i \in 1..Len(a) : a[i] = b[i]

C4_BusyConvertsExactlyOnce ==
    \A r \in Reqs : (Accepted(r) /\ ~cfg.diskcipher) =>
        /\ IsPrefix(h[r].submitted, Expected(r))
        /\ (Acked(r) /\ ~h[r].fault) =>
               (h[r].submitted = Expected(r) /\ h[r].status = "OK")

C4_Witness ==
    \E r \in Reqs : /\ Acked(r) /\ ~h[r].fault /\ h[r].busy
                    /\ io[r].size = MaxSect /\ Len(h[r].submitted) = MaxSect

\* C5: every accepted request is eventually acknowledged, given that the
\* engine, the device, the workers and the write thread keep running.
C5_EventuallyAcknowledged ==
    \A r \in Reqs : Accepted(r) ~> Acked(r)

C5_Witness ==
    \E r \in Reqs : /\ Acked(r) /\ io[r].dir = "WRITE" /\ h[r].busy
                    /\ pc[r].ep = "done" /\ devlog # <<>>

\* C6: if the engine reported an authentication-tag mismatch for a sector-group
\* of a request, the request is acknowledged with BLK_STS_PROTECTION.
C6_TagMismatchSurfaced ==
    \A r \in Reqs : (Acked(r) /\ h[r].badmsg) => h[r].status = "PROTECTION"

\* the pages the clones hold
HeldPages ==
    LET S[n \in 0..MaxCallers] == IF n = 0 THEN 0 ELSE S[n - 1] + ab[n].pages
    IN S[MaxCallers]

NoneInFlight == \A c \in Callers : ab[c].pc \in {"idle", "done"}

\* C7 as stated: no page is freed twice and, once no request is in flight, the
\* allocated-page counter of the instance is zero.
C7_IdleCounterZero ==
    /\ \A c \in Callers : ab[c].clone # "BUG"
    /\ NoneInFlight => n_allocated_pages = 0

\* C7 amended: no page is freed twice, the counter is at every moment the pages
\* the clones hold plus the pages the pool keeps in reserve, and once no
\* request is in flight no clone holds a page and the counter is the full
\* reserve of the pool.
C7_IdleCounterIsReserve ==
    /\ \A c \in Callers : ab[c].clone # "BUG"
    /\ n_allocated_pages = HeldPages + page_pool
    /\ NoneInFlight =>
           (HeldPages = 0 /\ page_pool = MaxPages /\ n_allocated_pages = MaxPages)

C7_Witness ==
    /\ NoneInFlight
    /\ \E c \in Callers : ab[c].fell /\ ab[c].clone = "freed" /\ ab[c].nr = MaxPages
    /\ \A c \in Callers : ab[c].pc = "done"

\* C8: a caller of crypt_alloc_buffer that needs no more pages than the pool
\* holds in reserve gets its buffer, whatever the other callers do: the callers
\* never all wait for each other's pages.
C8_EveryCallerGetsBuffer ==
    \A c \in Callers :
        (ab[c].pc \in {"retry", "page"}) ~> (ab[c].pc \notin {"retry", "page"})

C8_Witness ==
    \E c, d \in Callers :
        /\ c # d /\ ab[c].fell /\ ab[d].fell
        /\ ab[c].pc = "conv" /\ ab[c].pages = MaxPages
        /\ ab[d].pc = "retry"

\* a call of crypt_map that returned having changed nothing
MapNoStateChange ==
    /\ mp.bio = mp.bio0 /\ mp.accepted = 0 /\ ~mp.io_init
    /\ mp.integrity = "none" /\ mp.handoff = "none"

MapDataRequest == mp.bio0.op \in {"READ", "WRITE"}

\* the request as it arrived: its start or its length is no multiple of the
\* sector size; it is longer than crypt_map takes in one call
MapMisaligned ==
    \/ mp.bio0.bi_sector % (mp.cc.sector_size \div SectorBytes) # 0
    \/ mp.bio0.bi_size % mp.cc.sector_size # 0

MapCut ==
    /\ mp.bio0.bi_size > MaxBioBytes
    /\ (mp.bio0.op = "WRITE" \/ mp.cc.on_disk_tag_size # 0)

\* C9 as stated: a data request whose start or length is not a multiple of the
\* sector size is rejected with DM_MAPIO_KILL and nothing has changed, the
\* request included.
C9_MisalignedKilledUntouched ==
    (mp.ret # "none" /\ MapDataRequest /\ MapMisaligned) =>
        (mp.ret = "DM_MAPIO_KILL" /\ MapNoStateChange)

\* C9 amended: that holds of the requests crypt_map does not cut (reads without
\* integrity tags, and every request of at most BIO_MAX_PAGES pages). A longer
\* write or tagged read is cut to BIO_MAX_PAGES pages first and the cut request
\* is what is tested: killed, though shortened, when its start is misaligned,
\* accepted when only the length was.
C9_MisalignedKilledUnlessCut ==
    (mp.ret # "none" /\ MapDataRequest /\ MapMisaligned) =>
        IF ~MapCut
        THEN mp.ret = "DM_MAPIO_KILL" /\ MapNoStateChange
        ELSE /\ mp.accepted = MaxBioBytes \div SectorBytes \/ mp.integrity = "pool"
             /\ mp.bio.bi_size < mp.bio0.bi_size
             /\ IF mp.bio0.bi_sector % (mp.cc.sector_size \div SectorBytes) # 0
                THEN mp.ret = "DM_MAPIO_KILL" /\ ~mp.io_init /\ mp.handoff = "none"
                ELSE mp.ret = "DM_MAPIO_SUBMITTED" /\ mp.io_init

C9_Witness ==
    /\ mp.ret = "DM_MAPIO_KILL" /\ mp.bio0.op = "WRITE"
    /\ mp.bio0.bi_sector % (mp.cc.sector_size \div SectorBytes) = 0
    /\ mp.bio0.bi_size % mp.cc.sector_size # 0
    /\ mp.bio0.bi_size = MaxBioBytes - SectorBytes

\* a step that is a "key" message
KeyMessageStep ==
    /\ msg'.op = "message" /\ Len(msg'.argv.w) >= 2
    /\ msg'.argv.w[1] \in {"key", "KEY"}

\* C10: while DM_CRYPT_SUSPENDED is clear a key message returns an error, and no
\* step changes the key bytes, the key-valid flag, the keyring reference or the
\* state of the IV generator.
C10_KeyFrozenUnlessSuspended ==
    [][("DM_CRYPT_SUSPENDED" \notin cc_flags) =>
          /\ KeyMessageStep => msg'.ret # "0"
          /\ cc_key' = cc_key /\ cc_key_string' = cc_key_string /\ iv_gen' = iv_gen
          /\ ("DM_CRYPT_KEY_VALID" \in cc_flags') = ("DM_CRYPT_KEY_VALID" \in cc_flags)]_vars

C10_Witness ==
    /\ msg.op = "message" /\ ~msg.suspended /\ msg.ret = "EINVAL"
    /\ msg.argv.w = <<"key", "set">> /\ msg.argv.a.good /\ msg.argv.a.size_ok
    /\ msg.argv.a.val = "K2" /\ cc_key.tfm = "K1"
    /\ "DM_CRYPT_KEY_VALID" \in cc_flags

\* C11: once a "key wipe" message was processed on a suspended device, and
\* until a "key set" message succeeds, DM_CRYPT_KEY_VALID is clear and
\* crypt_preresume fails; right after the wipe cc->key no longer holds a key.
C11_WipedKeyStaysInvalid ==
    msg.wiped =>
        /\ "DM_CRYPT_KEY_VALID" \notin cc_flags
        /\ (msg.op = "preresume") => msg.ret = "EAGAIN"
        /\ (msg.op = "message" /\ IsKeyWipe(msg.argv)) =>
               cc_key.key \notin {"K1", "K2", "R1"}

C13_KeyStringOverwritten ==
    (msg.op = "message" /\ IsKeySet(msg.argv)) => msg.arg = memset_zeros(msg.argv.a.val)

\* C14: every clone handed to the underlying device (a read clone from
\* crypt_map or from the read worker, a write clone submitted directly or by
\* the write thread) starts at cc->start plus the target-relative start sector
\* of the original request.
C14_CloneSectorIsStartPlusOffset ==
    /\ \A r \in Reqs :
           pc[r].ep # "none" => io[r].clone_sector = cfg.start + h[r].sector
    /\ \A i \in 1..Len(devlog) :
           devlog[i].sector = cfg.start + h[devlog[i].req].sector

\* a write at a non-zero sector went through the write thread, after
\* kcryptd_crypt_write_convert moved io->sector past the clone
C14_Witness ==
    \E r \in Reqs :
        /\ io[r].dir = "WRITE" /\ h[r].sector > 0 /\ io[r].sector # h[r].sector
        /\ \E i \in 1..Len(devlog) : devlog[i].req = r

\* C15: the integrity region attached to a clone is on_disk_tag_size bytes for
\* each encryption sector of the clone, whatever the sector size, and is not
\* longer than the metadata buffer crypt_map allocated.
C15_IntegrityRegionFitsBuffer ==
    mp.bip = "attached" =>
        /\ mp.bip_size = mp.cc.on_disk_tag_size * (mp.bio.bi_size \div mp.cc.sector_size)
        /\ mp.bip_size <= mp.meta_len

\* the requests in the subtree below node n
RECURSIVE rb_nodes(_, _)
rb_nodes(t, n) ==
    IF n = 0 THEN {} ELSE {n} \cup rb_nodes(t, t[n].left) \cup rb_nodes(t, t[n].right)

\* the requests that are or were in cc->write_tree
Offloaded ==
    rb_nodes(rb, write_tree) \cup rb_nodes(rb, wt.tree)
        \cup {devlog[i].req : i \in 1..Len(devlog)}

\* C16 as stated: with DM_CRYPT_NO_OFFLOAD set no finished write conversion,
\* synchronous or asynchronous, is ever inserted into cc->write_tree.
C16_NoOffloadNeverQueues ==
    cfg.no_offload => Offloaded = {}

\* C16, amended: with DM_CRYPT_NO_OFFLOAD set, a conversion the worker finishes
\* is submitted directly and never inserted into cc->write_tree; the only
\* requests inserted are those finished in kcryptd_async_done.
C16_NoOffloadQueuesOnlyAsync ==
    cfg.no_offload =>
        \A r \in Reqs :
            /\ r \in Offloaded => pc[r].cb = "done"
            /\ pc[r].cw = "bump" => (r \notin Offloaded /\ pc[r].ep # "none")

\* with DM_CRYPT_NO_OFFLOAD set, one write was submitted directly by the
\* worker and another was inserted by kcryptd_async_done
C16_Witness ==
    /\ cfg.no_offload
    /\ \E r, q \in Reqs :
          /\ r \in Offloaded /\ pc[r].cb = "done"
          /\ q \notin Offloaded /\ pc[q].cw = "bump" /\ pc[q].ep # "none"

\* the request as it arrived is longer than BIO_MAX_PAGES pages
MapTooLong == mp.bio0.bi_size > MaxBioBytes

\* C17 as stated: for every data request longer than BIO_MAX_PAGES pages, read
\* or write, with or without integrity metadata, crypt_map tells the core to
\* split it (dm_accept_partial_bio).
C17_EveryLongRequestSplit ==
    (mp.ret # "none" /\ MapDataRequest /\ MapTooLong) =>
        (mp.accepted # 0 /\ mp.bio.bi_size <= MaxBioBytes)

\* C17, amended: a write, and a read with integrity metadata, longer than
\* BIO_MAX_PAGES pages is split to at most BIO_MAX_PAGES pages; a longer read
\* without integrity metadata is taken whole.
C17_LongWriteOrTaggedSplit ==
    (mp.ret # "none" /\ MapDataRequest /\ MapTooLong) =>
        IF mp.bio0.op = "WRITE" \/ mp.cc.on_disk_tag_size # 0
        THEN /\ mp.accepted \in 1..(MaxBioBytes \div SectorBytes)
             /\ mp.bio.bi_size = mp.accepted * SectorBytes
        ELSE mp.accepted = 0 /\ mp.bio.bi_size = mp.bio0.bi_size

\* a read with integrity metadata, longer than BIO_MAX_PAGES pages, was cut to
\* BIO_MAX_PAGES pages and accepted
C17_Witness ==
    /\ mp.ret = "DM_MAPIO_SUBMITTED" /\ mp.bio0.op = "READ" /\ MapTooLong
    /\ mp.cc.on_disk_tag_size # 0 /\ mp.accepted = MaxBioBytes \div SectorBytes

\* both IVs have been generated
IvBoth == dmreq.iv[1] # <<>> /\ dmreq.iv[2] # <<>>

\* the two sectors agree in the bits the generator keeps: the low 32 for plain,
\* all 64 for plain64 and plain64be, the low 64 - shift for benbi
IvSameKeptBits ==
    LET a == dmreq.iv_sector[1]
        b == dmreq.iv_sector[2]
    IN CASE dmreq.cc.mode = "plain" -> \A i \in 1..4 : a[i] = b[i]
         [] dmreq.cc.mode \in {"plain64", "plain64be"} -> a = b
         [] dmreq.cc.mode = "benbi" ->
                /\ \A i \in 1..7 : a[i] = b[i]
                /\ a[8] % 2 ^ (8 - dmreq.cc.shift) = b[8] % 2 ^ (8 - dmreq.cc.shift)

C19_RoundTrip ==
    \A k \in 1..Len(dmreq.back) : dmreq.back[k] = dmreq.plain[k]

\* a request of two sectors was written and read back with lmk and a seed, and
\* what the device stored is not the plaintext
C19_Witness ==
    /\ dmreq.cc.mode = "lmk" /\ dmreq.cc.seed # <<>>
    /\ Len(dmreq.plain) = 2 /\ Len(dmreq.back) = 2
    /\ dmreq.disk[1] # dmreq.plain[1] /\ dmreq.disk[2] # dmreq.plain[2]

\* the worker of request r leaves the wait for the backlog-drain signal; the
\* busy submission is the last one it made
LeavesBusyWait(r) == pc[r].cw = "wait" /\ pc'[r].cw # "wait"

BusySubmission(r) == h[r].submitted[Len(h[r].submitted)]

\* C20 as stated: after a busy answer and the backlog-drain signal,
\* crypt_convert retries the same sub-request: the sector cursor, the tag offset
\* and the data cursor it goes on with are those of the busy submission.
C20_BusyRetriesSameSubRequest ==
    [][\A r \in Reqs : LeavesBusyWait(r) =>
          /\ pc'[r].cw = "conv"
          /\ io'[r].cc_sector = BusySubmission(r).sector
          /\ io'[r].tag_offset = BusySubmission(r).tag
          /\ io'[r].size - io'[r].iter_in = BusySubmission(r).pos]_vars

\* C20, amended: after a busy answer and the backlog-drain signal,
\* crypt_convert goes on as after an asynchronous submission; the busy
\* sub-request is not submitted again, the sector cursor, the tag offset and
\* the data cursor are one sector past it, and no sub-request is ever
\* submitted twice.
C20_BusyAdvancesWithoutRetry ==
    [][\A r \in Reqs :
          /\ LeavesBusyWait(r) =>
                /\ h'[r].submitted = h[r].submitted
                /\ io'[r].cc_sector = BusySubmission(r).sector + sector_step
                /\ io'[r].tag_offset = BusySubmission(r).tag + 1
                /\ io'[r].size - io'[r].iter_in = BusySubmission(r).pos + 1
                /\ pc'[r].cw = IF io'[r].iter_in > 0 THEN "conv" ELSE "ccdec"
          /\ Len(h'[r].submitted) > Len(h[r].submitted) =>
                \A j \in 1..Len(h[r].submitted) :
                    h[r].submitted[j] # h'[r].submitted[Len(h'[r].submitted)]]_vars

\* the first of two sector-groups was answered busy, the signal came, and the
\* worker is about to submit the second
C20_Witness ==
    \E r \in Reqs :
        /\ h[r].busy /\ Len(h[r].submitted) = 1 /\ io[r].size = 2
        /\ ops[r][1] = "inflight" /\ pc[r].cw = "conv" /\ io[r].tag_offset = 1

\* a step that is one call of crypt_convert_block_skcipher /
\* crypt_convert_block_aead for request r
BlockCall(r) == h'[r].calls = h[r].calls + 1

\* C21 as stated: every call of the block conversion moves the input and the
\* output cursor on by exactly one sector, whatever it returns: success,
\* in-progress, busy, a cipher failure, an IV-generator failure or the
\* rejection of an unaligned segment.
C21_EveryCallAdvancesCursors ==
    [][\A r \in Reqs : BlockCall(r) =>
          /\ io'[r].iter_in = io[r].iter_in - 1
          /\ io'[r].iter_out = io[r].iter_out - 1]_vars

\* C21, amended: a call that reaches the cipher (success, in-progress, busy,
\* cipher failure, tag mismatch) moves both cursors on by exactly one sector; a
\* call that rejects an unaligned segment or whose IV generator fails returns
\* before it touches the conversion context, and crypt_convert gives up.
C21_CipherCallsAdvanceCursors ==
    [][\A r \in Reqs : BlockCall(r) =>
          IF h'[r].ret \in EarlyReturns
          THEN /\ io'[r] = io[r]
               /\ pc'[r].cw = "store" /\ loc'[r].ret = "IOERR"
          ELSE /\ io'[r].iter_in = io[r].iter_in - 1
               /\ io'[r].iter_out = io[r].iter_out - 1]_vars

\* the second sector of a request failed in the cipher, after a first one that
\* was answered busy: both cursors are two sectors on, at the end of the data
C21_Witness ==
    \E r \in Reqs :
        /\ h[r].calls = 2 /\ h[r].ret = "EIO" /\ h[r].busy /\ io[r].size = 2
        /\ io[r].iter_in = 0 /\ io[r].iter_out = 0 /\ pc[r].cw = "store"

\* the sub-requests of r the engine has not finished (the callback has not yet
\* decremented for them), and whether the submitting worker still holds its count
Unfinished(r) == {k \in Groups : ops[r][k] \in {"backlog", "inflight", "stored"}}
Submitting(r) == pc[r].cw \in {"conv", "wait", "store", "ccdec"}

\* C22: from the first sub-request of a conversion on, cc_pending is one for the
\* worker that is still submitting plus one for each sub-request the engine
\* has not finished; the post-conversion step (kcryptd_crypt_read_done or
\* kcryptd_crypt_write_io_submit) has run exactly once when the counter is zero
\* and not at all before, whoever brought it to zero.
C22_PendingCounterCountsOnce ==
    \A r \in Reqs : h[r].calls >= 1 =>
        /\ io[r].cc_pending =
               Cardinality(Unfinished(r)) + (IF Submitting(r) THEN 1 ELSE 0)
        /\ h[r].post = (IF io[r].cc_pending = 0 THEN 1 ELSE 0)

\* a conversion of two sub-requests, one answered busy, whose worker stopped
\* at a failure; the callback of the last sub-request brought the counter to
\* zero and made the post-conversion step
C22_Witness ==
    \E r \in Reqs :
        /\ h[r].post = 1 /\ h[r].calls = 2 /\ h[r].busy /\ h[r].ret = "EIO"
        /\ pc[r].cb # "idle" /\ pc[r].cw = "done" /\ io[r].cc_pending = 0

\* the post-conversion step of request r is made in this step
PostStep(r) == h'[r].post = h[r].post + 1

\* C23: an error on the record of an accepted request stays; a write with an
\* error on its record that was not handed on before is never sent to the
\* device and never inserted into cc->write_tree; and when the conversion of a
\* write ends with an error recorded, the same step frees the bounce pages and
\* the clone and goes on to crypt_dec_pending with that error.
C23_FailedWriteNeverSubmitted ==
    [][\A r \in Reqs : (Accepted(r) /\ io[r].dir = "WRITE") =>
          /\ io[r].error # "OK" => io'[r].error # "OK"
          /\ (io[r].error # "OK" /\ pc[r].ep = "none" /\ r \notin Offloaded) =>
                (pc'[r].ep = "none" /\ r \notin Offloaded')
          /\ (PostStep(r) /\ io[r].error # "OK") =>
                /\ io'[r].clone = "freed"
                /\ \/ pc'[r].cw = "ws_dec" /\ loc'[r].cw = io[r].error
                   \/ pc'[r].cb = "dec" /\ loc'[r].cb = io[r].error]_vars

\* a write of two sectors whose first sub-request failed asynchronously while
\* the second succeeded: the callback that ended the conversion freed the
\* clone, the request was acknowledged with the error and never went to the
\* device
C23_Witness ==
    \E r \in Reqs :
        /\ io[r].dir = "WRITE" /\ io[r].size = 2 /\ h[r].post = 1
        /\ Len(h[r].submitted) = 2 /\ io[r].error = "IOERR"
        /\ io[r].clone = "freed" /\ pc[r].ep = "none" /\ r \notin Offloaded
        /\ pc[r].cb = "done" /\ Acked(r) /\ h[r].status = "IOERR"

\* the final cleanup of crypt_dec_pending for request r is made in this step
CleanupStep(r) == h'[r].acks = h[r].acks + 1

\* the ways a sub-request handed to the engine goes on: only through
\* kcryptd_async_done, to its end
OpGoesOn(a, b) ==
    CASE a = "backlog" -> b \in {"backlog", "inflight"}
      [] a = "inflight" -> b \in {"inflight", "stored", "done"}
      [] a = "stored" -> b \in {"stored", "done"}
      [] OTHER -> TRUE

\* C24: no step takes a sub-request back from the engine, whether or not
\* another sub-request of the request failed and crypt_convert gave up; and the
\* final cleanup of crypt_dec_pending (crypt_free_req, the integrity metadata,
\* bio_endio) is made in no step before which a sub-request of the request is
\* unfinished, and while a callback of the request is in its last call only
\* by that callback.
C24_CleanupAfterLastSubRequest ==
    [][\A r \in Reqs :
          /\ \A k \in Groups : OpGoesOn(ops[r][k], ops'[r][k])
          /\ CleanupStep(r) =>
                /\ Unfinished(r) = {}
                /\ pc[r].cb = "dec" => pc'[r].cb = "done"]_vars

\* a read of two sectors: the second failed in the cipher and crypt_convert
\* gave up while the first was still with the engine; its callback ended the
\* conversion and made the cleanup, once, with the error
C24_Witness ==
    \E r \in Reqs :
        /\ io[r].dir = "READ" /\ h[r].calls = 2 /\ h[r].ret = "EIO"
        /\ ops[r][1] = "done" /\ pc[r].cb = "done" /\ pc[r].cw = "done"
        /\ h[r].acks = 1 /\ h[r].status = "IOERR" /\ io[r].io_pending = 0

\* C25: a caller of crypt_alloc_buffer that allocates with
\* __GFP_DIRECT_RECLAIM holds cc->bio_alloc_lock from retry: to out:, so at most
\* one caller is in the blocking loop; a caller that comes to retry: does not
\* hold the mutex (it never locks it twice), and a caller that has left the
\* function, on any path, or that allocates without blocking, does not hold it.
C25_BlockingOnlyUnderMutex ==
    /\ \A c \in Callers :
          /\ (ab[c].reclaim /\ ab[c].pc \in {"page", "tags"}) => bio_alloc_lock = c
          /\ ab[c].pc = "retry" => bio_alloc_lock # c
          /\ ab[c].pc \in {"idle", "conv", "dev", "done"} => bio_alloc_lock # c
          /\ ~ab[c].reclaim => bio_alloc_lock # c
    /\ Cardinality({c \in Callers : ab[c].reclaim /\ ab[c].pc = "page"}) <= 1

\* one caller is in the blocking loop with the mutex and a page, another has
\* fallen back to the blocking path and stands before the mutex
C25_Witness ==
    \E c, d \in Callers :
        /\ c # d /\ bio_alloc_lock = c
        /\ ab[c].reclaim /\ ab[c].pc = "page" /\ ab[c].pages = 1 /\ ab[c].nr = 2
        /\ ab[d].reclaim /\ ab[d].pc = "retry" /\ ab[d].fell

\* the instances that hold a crypt_config
LiveInstances == {t \in Targets : dm_crypt_clients.ti[t] # "NULL"}

\* C26: whatever constructions (complete, failed at any place, or still under
\* way) and teardowns took place, dm_crypt_clients_n is the number of
\* instances that hold a crypt_config, and with n >= 1 of them
\* dm_crypt_pages_per_client is the larger of floor(2% of the low memory / n)
\* and DM_CRYPT_MIN_PAGES_PER_CLIENT.
C26_QuotaSharedAmongLiveInstances ==
    LET n == Cardinality(LiveInstances)
        share == (dm_crypt_clients.low_pages * 2) \div (100 * n)
    IN /\ dm_crypt_clients.n = n
       /\ n >= 1 =>
             dm_crypt_clients.pages_per_client =
                 (IF share >= 256 * 16 THEN share ELSE 256 * 16)

\* three instances are live after a fourth failed in crypt_ctr_cipher and was
\* torn down by crypt_ctr itself; each gets a third of the 2%, above the floor
C26_Witness ==
    /\ Cardinality({t \in Targets : dm_crypt_clients.ti[t] = "live"}) = 3
    /\ \E t \in Targets : /\ dm_crypt_clients.ti[t] = "NULL"
                          /\ dm_crypt_clients.ret[t] = "crypt_ctr_cipher"
    /\ dm_crypt_clients.low_pages = 2000000
    /\ dm_crypt_clients.pages_per_client = 13333

\* C27 as stated: with any number of threads allocating on one instance, the
\* pages held through no-retry allocations (the counted pages beyond the
\* reserve that mempool_create filled with GFP_KERNEL) never exceed the quota.
C27_NoRetryPagesWithinQuota ==
    n_allocated_pages - page_pool <= dm_crypt_pages_per_client

\* C27: crypt_page_alloc refuses a no-retry allocation when the counter it
\* reads has reached the quota, but the test and the counting are two steps:
\* the threads that passed the test together all get their page, and the
\* counter passes the quota by at most one page for every thread but the first.
C27_QuotaPassedByRacingThreads ==
    n_allocated_pages <= dm_crypt_pages_per_client + MaxAllocators - 1

C27_Witness ==
    /\ n_allocated_pages = dm_crypt_pages_per_client + MaxAllocators - 1
    /\ \A c \in Allocators : page_alloc[c].ret = "page"

\* C28: with the IV kept in the integrity metadata (cc->integrity_iv_size
\* non-zero), a write stores in the sector's slot exactly the IV it generated
\* and handed to the cipher; a read takes its IV from the slot and does not
\* call the generator, so it decrypts with the IV of the write of that sector.
C28_ReadUsesStoredIv ==
    (dmreq # <<>> /\ integrity_iv_size(dmreq.cc) # 0) =>
        /\ \A k \in 1..Len(dmreq.tags) : dmreq.tags[k] = dmreq.wiv[k]
        /\ \A k \in 1..Len(dmreq.back) :
               /\ ~dmreq.rgen[k]
               /\ dmreq.riv[k] = dmreq.tags[k]
               /\ dmreq.riv[k] = dmreq.wiv[k]

C28_Witness ==
    /\ dmreq # <<>>
    /\ dmreq.cc.mode = "random"
    /\ Len(dmreq.back) = MaxSect
    /\ dmreq.wiv[1] # dmreq.wiv[2]
    /\ dmreq.riv = dmreq.wiv
    /\ dmreq.back = dmreq.plain

\* the submissions of request r by the write thread
Logged(r) == {i \in 1..Len(devlog) : devlog[i].req = r}

\* the places a write is at once its submit stage has run without an error:
\* cc->write_tree, the write thread's private tree, handed over by the write
\* thread, or handed over by its own worker (DM_CRYPT_NO_OFFLOAD)
PlacesOf(r) ==
    (IF r \in rb_nodes(rb, write_tree) THEN {"write_tree"} ELSE {})
        \cup (IF r \in rb_nodes(rb, wt.tree) THEN {"private"} ELSE {})
        \cup (IF Logged(r) # {} THEN {"write thread"} ELSE {})
        \cup (IF Logged(r) = {} /\ pc[r].ep # "none" THEN {"worker"} ELSE {})

\* C29: write_thread_wait.lock is held by the write thread only from its
\* spin_lock to the end of the swap (or of the enqueueing on the wait queue),
\* never while it hands a clone to the device and never while it sleeps; an
\* inserter takes it for the insertion only. A write inserted into
\* cc->write_tree while the thread drains its private tree is neither lost nor
\* handed over twice: every write whose submit stage has run is in exactly one
\* of the two trees or was handed to the device exactly once.
C29_LockOnlyForInsertAndSwap ==
    /\ wt.lock <=> wt.pc = "check"
    /\ wt.pc # "pop" => wt.tree = 0
    /\ \A r \in Reqs :
          /\ Cardinality(Logged(r)) <= 1
          /\ h[r].post >= 1 => Cardinality(PlacesOf(r)) = 1
          /\ h[r].post = 0 => PlacesOf(r) = {}

\* the write thread drains its private tree, the lock is free, and another
\* write has been inserted into the shared tree meanwhile
C29_Witness ==
    /\ wt.pc = "pop" /\ ~wt.lock
    /\ wt.tree # 0
    /\ write_tree # 0
    /\ wt.batch = 1

\* C30: no wake-up of the write thread is lost: a write inserted into
\* cc->write_tree is eventually handed to the device by the write thread, and
\* never more than once (a second submission would stay in the record of the
\* submissions for ever), wherever the thread is in its check-empty, enqueue,
\* unlock, schedule sequence when the insertion happens.
C30_InsertedEventuallySubmitted ==
    \A r \in Reqs :
        (r \in rb_nodes(rb, write_tree) \/ Cardinality(Logged(r)) > 1)
            ~> (Cardinality(Logged(r)) = 1)

\* the thread found the tree empty and put itself on the wait queue; a write
\* was inserted before it was taken off the queue again and has woken it
C30_Witness ==
    /\ wt.pc \in {"sched", "relock"} /\ wt.onq /\ wt.running
    /\ wt.batch >= 1
    /\ write_tree # 0

\* the fallback of crypt_map to cc->tag_pool: the request is accepted, cut to
\* tag_pool_max_sectors, and its tags fit in one entry of the pool
MapTagFallbackFits ==
    (mp # <<>> /\ mp.integrity = "pool") =>
        /\ mp.ret = "DM_MAPIO_SUBMITTED"
        /\ mp.bio.bi_size \div SectorBytes <= tag_pool_max_sectors(mp.cc)
        /\ mp.cc.on_disk_tag_size * (mp.bio.bi_size \div mp.cc.sector_size)
               <= tag_pool_entry_size(mp.cc)

\* C31: the tag buffer crypt_map took from kmalloc, or from cc->tag_pool when
\* kmalloc failed, is released at the final cleanup exactly once: to the pool
\* if and only if it came from the pool, with kfree otherwise.
C31_TagBufferReleasedOnce ==
    \A r \in Reqs : Acked(r) =>
        /\ io[r].integrity_metadata = "tag_pool" =>
               (h[r].mempool_free = 1 /\ h[r].kfree = 0)
        /\ io[r].integrity_metadata = "kmalloc" =>
               (h[r].kfree = 1 /\ h[r].mempool_free = 0)
        /\ io[r].integrity_metadata = "NULL" =>
               (h[r].kfree = 0 /\ h[r].mempool_free = 0)

\* C32: after every successful construction key_size is divisible by
\* key_parts, and the sub-key size times the number of cipher instances plus
\* the extra key bytes is key_size.
C32_KeySizeMultipleOfParts ==
    (cc_cipher # <<>> /\ cc_cipher.ret = "0") =>
        /\ cc_cipher.key_size % cc_cipher.key_parts = 0
        /\ crypt_subkey_size(cc_cipher) * cc_cipher.tfms_count
               + cc_cipher.key_extra_size = cc_cipher.key_size

\* the sector number crypt_convert owes the IV generator for the k-th
\* sector-group of the request, and its tag slot
GroupUnits(k) ==
    dmreq.sector + dmreq.cc.iv_offset + (k - 1) * (dmreq.cc.sector_size \div 512)

GroupSubRequest(k) ==
    [iv_sector |-> IF dmreq.cc.iv_large_sectors
                   THEN GroupUnits(k) \div (dmreq.cc.sector_size \div 512)
                   ELSE GroupUnits(k),
     tag |-> k - 1]

CallbackDec(r) ==
    \E k \in Groups : ops[r][k] \in {"inflight", "stored"} /\ ops'[r][k] = "done"

\* C34: as long as the worker is inside crypt_convert's loop, or has left it and
\* not yet made its own atomic_dec_and_test, cc_pending is at least one; the
\* atomic_dec_and_test of a completion callback reaches zero, and makes the
\* post-conversion step, only after the worker dropped its seed.
C34_SeedHeldWhileSubmitting ==
    [][\A r \in Reqs :
          /\ Submitting(r) => io[r].cc_pending >= 1
          /\ Submitting(r)' => io'[r].cc_pending >= 1
          /\ (CallbackDec(r) /\ (io'[r].cc_pending = 0 \/ PostStep(r))) =>
                 ~Submitting(r)]_vars

\* the callback of the first of two sub-requests has made its decrement while
\* the worker is still in the loop, about to submit the second: the counter
\* is held at one by the seed alone
C34_Witness ==
    \E r \in Reqs :
        /\ io[r].size = 2 /\ pc[r].cw = "conv" /\ h[r].calls = 1
        /\ h[r].ret = "EINPROGRESS" /\ ops[r][1] = "done"
        /\ io[r].cc_pending = 1 /\ h[r].post = 0

\* kcryptd_io_read returns 1 in this step: to crypt_map, which queues the io
\* for the read worker, or to kcryptd_io_read_work, which records the error
FailsInMap(r) == pc[r].iow = "new" /\ pc'[r].iow = "rw_queued"

FailsInWorker(r) == pc[r].iow = "rw_queued" /\ pc'[r].iow = "dec"

\* C35: a call of kcryptd_io_read that returns failure (no clone, or no
\* integrity payload), from crypt_map or from the read worker, has not
\* acknowledged the original request, and io_pending is what it was before the
\* call: zero under crypt_map, the worker's own reference added under
\* kcryptd_io_read_work.
C35_FailedReadSubmitLeavesRequest ==
    [][\A r \in Reqs :
          /\ FailsInMap(r) => (h'[r].acks = h[r].acks /\ io'[r].io_pending = 0)
          /\ FailsInWorker(r) =>
                 /\ h'[r].acks = h[r].acks
                 /\ io'[r].io_pending = io[r].io_pending + 1]_vars

\* crypt_endio of the read clone of request r runs in this step, and the
\* status of the clone it found
ReadEndio(r) == io[r].dir = "READ" /\ pc[r].ep = "dev" /\ pc'[r].ep # "dev"

ReadEndioFailed(r) == ReadEndio(r) /\ pc'[r].ep = "dec"

\* the read of request r is queued for decryption in this step
ReadQueued(r) == io'[r].dir = "READ" /\ pc[r].cw # "queued" /\ pc'[r].cw = "queued"

\* the device failed the read clone of request r
ReadCloneFailed(r) ==
    io[r].dir = "READ" /\ io[r].error = "IOERR" /\ pc[r].cw = "idle"
        /\ pc[r].ep \in {"dec", "done"}

\* the queueing half of C36: a read is queued for decryption only by the
\* crypt_endio that found its clone without error, and a crypt_endio that
\* found an error queues nothing and records the error
C36_QueuedOnlyByCleanEndio ==
    [][\A r \in Reqs :
          /\ ReadQueued(r) => (ReadEndio(r) /\ ~ReadEndioFailed(r))
          /\ ReadEndioFailed(r) =>
                 (pc'[r].cw = "idle" /\ io'[r].error = "IOERR" /\ h'[r].calls = 0)]_vars

\* C36: the decryption of a read is queued only after the device completed
\* the read clone without error; when the clone completed with an error no
\* conversion is queued for the request, the error is recorded on the I/O
\* record, and the request is acknowledged with that error.
C36_ReadDecryptedOnlyAfterCleanRead ==
    [][\A r \in Reqs :
          /\ ReadQueued(r) => (ReadEndio(r) /\ ~ReadEndioFailed(r))
          /\ ReadEndioFailed(r) =>
                 (pc'[r].cw = "idle" /\ io'[r].error = "IOERR" /\ h'[r].calls = 0)
          /\ (ReadCloneFailed(r)' /\ Acked(r)') => h'[r].status = "IOERR"]_vars

\* the clone of request r has completed: crypt_endio has run
CloneCompleted(r) == pc[r].ep \in {"dec", "done"}

WriteSubmitClean(r) == PostStep(r) /\ io[r].dir = "WRITE" /\ ~io_error(io[r])

\* C38: whenever kcryptd_crypt_write_io_submit is reached with no error
\* recorded on the request, the output cursor of the conversion is exhausted:
\* BUG_ON(io->ctx.iter_out.bi_size) does not fire.
C38_CleanWriteSubmitHasFullClone ==
    [][\A r \in Reqs : WriteSubmitClean(r) =>
          /\ io[r].iter_out = 0 /\ io[r].iter_in = 0
          /\ io'[r].clone # "BUG"]_vars

\* the last of two sub-requests of a write completed asynchronously and its
\* callback reached kcryptd_crypt_write_io_submit without an error: the clone
\* is full and in the write tree
C38_Witness ==
    \E r \in Reqs :
        /\ io[r].dir = "WRITE" /\ io[r].size = 2 /\ h[r].post = 1
        /\ io[r].error = "OK" /\ io[r].iter_out = 0 /\ io[r].clone = "alloc"
        /\ pc[r].cb = "done" /\ r \in rb_nodes(rb, write_tree)

\* the two invocations of kcryptd_async_done for sub-request k of request r:
\* the notification that a backlogged request is now being processed, and the
\* final one
RestartCall(r, k) == ops[r][k] = "backlog" /\ ops'[r][k] = "inflight"

FinalCall(r, k) == ops[r][k] \in {"inflight", "stored"} /\ ops'[r][k] = "done"

\* C39: the first invocation of the callback for a backlogged sub-request
\* (-EINPROGRESS) only signals the restart completion and changes nothing else
\* of the request; the error is recorded and cc_pending is decremented by the
\* final invocation alone, which decrements it by one, and a sub-request that
\* was finished is not finished again.
C39_BacklogCallbackTwice ==
    [][\A r \in Reqs, k \in Groups :
          /\ RestartCall(r, k) =>
                 /\ io'[r] = [io[r] EXCEPT !.restart = @ + 1]
                 /\ h'[r] = h[r] /\ pc'[r] = pc[r] /\ loc'[r] = loc[r]
                 /\ \A j \in Groups \ {k} : ops'[r][j] = ops[r][j]
          /\ FinalCall(r, k) =>
                 /\ io'[r].cc_pending = io[r].cc_pending - 1
                 /\ io'[r].restart = io[r].restart
          /\ (ops[r][k] = "backlog" /\ ops'[r][k] # "backlog") => RestartCall(r, k)
          /\ (ops[r][k] = "done" /\ pc[r].cw # "queued") => ops'[r][k] = "done"]_vars

\* a sub-request that was answered busy has had both invocations of its
\* callback: the restart was signalled, the worker went on, and the final
\* invocation brought cc_pending to zero
C39_Witness ==
    \E r \in Reqs :
        /\ h[r].busy /\ io[r].size = 1 /\ h[r].calls = 1
        /\ ops[r][1] = "done" /\ io[r].cc_pending = 0 /\ h[r].post = 1
        /\ io[r].restart = 0

\* this step is a "key set" message to a suspended device that returns an error
KeySetFails ==
    /\ msg'.op = "message" /\ IsKeySet(msg'.argv)
    /\ msg'.suspended /\ "DM_CRYPT_SUSPENDED" \in cc_flags
    /\ msg'.ret # "0"

\* C40: when "key set" on a suspended device returns an error, either
\* DM_CRYPT_KEY_VALID is clear afterwards, or the stored key, the key of the
\* cipher and the state of the IV generator are what they were: an error is
\* never returned with a new key installed and marked valid.
C40_FailedKeySetNeverLeavesNewValidKey ==
    [][KeySetFails =>
          \/ "DM_CRYPT_KEY_VALID" \notin cc_flags'
          \/ (cc_key' = cc_key /\ cc_key_string' = cc_key_string
                  /\ iv_gen' = iv_gen)]_vars

\* sanity of the counters and of the bounce pages
TypeOK ==
    \A r \in Reqs : /\ io[r].io_pending >= 0 /\ io[r].cc_pending >= 0
                    /\ io[r].clone # "BUG"

====
